---------------------------- MODULE Spec2Model ----------------------------
(***************************************************************************)
(* A model of citechain's resolution-and-aggregation engine:               *)
(*   - validateSeedReferences (src/lib/validation/index.ts and the         *)
(*     processors/services kept in src/lib/store.ts), and                  *)
(*   - searchCitations (src/lib/citations/index.ts and the processors and  *)
(*     services kept in src/unnamed/part_008 and part_006).                *)
(*                                                                         *)
(* Strings that the code transforms (identifiers, titles) are sequences of *)
(* one-character strings, so that the normalizers are computed and not     *)
(* assumed.  An absent (undefined) or empty string is the empty sequence:  *)
(* the code only ever tests such fields for truthiness.                    *)
(***************************************************************************)
EXTENDS Integers, Sequences, FiniteSets, TLC

(***************************************************************************)
(* Bounds of the model.                                                    *)
(***************************************************************************)
\* The longest list of seed references of one resolution request.
MaxRefs == 3

(***************************************************************************)
(* Character sequences and the JavaScript string operations the code uses. *)
(***************************************************************************)

Absent == << >>

Truthy(s) == s # << >>

Last(s) == s[Len(s)]

Front(s) == SubSeq(s, 1, Len(s) - 1)

Drop(s, n) == SubSeq(s, n + 1, Len(s))

Digits == {"0", "1", "2", "3", "4", "5", "6", "7", "8", "9"}

LowerLetters ==
    {"a", "b", "c", "d", "e", "f", "g", "h", "i", "j", "k", "l", "m",
     "n", "o", "p", "q", "r", "s", "t", "u", "v", "w", "x", "y", "z"}

Whitespace == {" ", "\t", "\n"}

Quotes == {"\"", "'"}

\* String.prototype.toLowerCase on one character.
LowerChar(c) ==
    CASE c = "A" -> "a" [] c = "B" -> "b" [] c = "C" -> "c" [] c = "D" -> "d"
      [] c = "E" -> "e" [] c = "F" -> "f" [] c = "G" -> "g" [] c = "H" -> "h"
      [] c = "I" -> "i" [] c = "J" -> "j" [] c = "K" -> "k" [] c = "L" -> "l"
      [] c = "M" -> "m" [] c = "N" -> "n" [] c = "O" -> "o" [] c = "P" -> "p"
      [] c = "Q" -> "q" [] c = "R" -> "r" [] c = "S" -> "s" [] c = "T" -> "t"
      [] c = "U" -> "u" [] c = "V" -> "v" [] c = "W" -> "w" [] c = "X" -> "x"
      [] c = "Y" -> "y" [] c = "Z" -> "z" [] OTHER -> c

ToLowerCase(s) == [i \in 1..Len(s) |-> LowerChar(s[i])]

RECURSIVE TrimStart(_)
TrimStart(s) ==
    IF s # << >> /\ Head(s) \in Whitespace THEN TrimStart(Tail(s)) ELSE s

RECURSIVE TrimEnd(_)
TrimEnd(s) ==
    IF s # << >> /\ Last(s) \in Whitespace THEN TrimEnd(Front(s)) ELSE s

\* String.prototype.trim
Trim(s) == TrimEnd(TrimStart(s))

\* s.replace(/^["']|["']$/g, ""): one quote off the start, one off the end.
StripQuotes(s) ==
    LET a == IF s # << >> /\ Head(s) \in Quotes THEN Tail(s) ELSE s
    IN  IF a # << >> /\ Last(a) \in Quotes THEN Front(a) ELSE a

\* Whether s starts with p, character for character.
HasPrefix(s, p) ==
    /\ Len(s) >= Len(p)
    /\ SubSeq(s, 1, Len(p)) = p

\* The length of what (?:p)? matches at the start of s.
OptLen(s, p) == IF HasPrefix(s, p) THEN Len(p) ELSE 0

\* s.replace(/^p/i, "") for a literal p given in lower case.
StripPrefixCI(s, p) == Drop(s, OptLen(ToLowerCase(s), p))

RECURSIVE Filter(_, _)
\* The characters of s that are in the set keep, in order.
Filter(s, keep) ==
    IF s = << >> THEN << >>
    ELSE IF Head(s) \in keep THEN <<Head(s)>> \o Filter(Tail(s), keep)
         ELSE Filter(Tail(s), keep)

RECURSIVE UpToSlash(_)
\* s.replace(/\/.*$/, ""): s up to its first slash.
UpToSlash(s) ==
    IF s = << >> \/ Head(s) = "/" THEN << >>
    ELSE <<Head(s)>> \o UpToSlash(Tail(s))

\* The length of what (?:https?:\/\/)? matches at the start of the lower-case l.
SchemeLen(l) ==
    IF HasPrefix(l, <<"h", "t", "t", "p", "s", ":", "/", "/">>) THEN 8
    ELSE IF HasPrefix(l, <<"h", "t", "t", "p", ":", "/", "/">>) THEN 7
    ELSE 0

\* The length of what ^(?:https?:\/\/)?(?:opt)?host matches in the lower-case
\* l: host has to follow the optional parts, or nothing is matched.
HostEnd(l, n, host) == IF HasPrefix(Drop(l, n), host) THEN n + Len(host) ELSE 0

AfterOpt(l, n, opt) == n + OptLen(Drop(l, n), opt)

UrlPrefixLen(l, opt, host) == HostEnd(l, AfterOpt(l, SchemeLen(l), opt), host)

\* s.replace(/^(?:https?:\/\/)?(?:opt)?host/i, "")
StripUrlPrefix(s, opt, host) == Drop(s, UrlPrefixLen(ToLowerCase(s), opt, host))

\* s.replace(/^label:?\s*/i, "") with l the lower case of s.
StripLabelOf(s, l, label) ==
    IF HasPrefix(l, label \o <<":">>) THEN TrimStart(Drop(s, Len(label) + 1))
    ELSE IF HasPrefix(l, label) THEN TrimStart(Drop(s, Len(label)))
    ELSE s

StripLabel(s, label) == StripLabelOf(s, ToLowerCase(s), label)

\* s.replace(/^\s*10\./i, "10.")
TenDot(s) == IF HasPrefix(TrimStart(s), <<"1", "0", ".">>) THEN TrimStart(s) ELSE s

\* The start every identifier normalizer shares: trim, one quote off each
\* end, trim.
Unquote(s) == Trim(StripQuotes(Trim(s)))

(***************************************************************************)
(* The identifier and title normalizers of src/lib/utils.ts.               *)
(***************************************************************************)
normalizeText(title) ==
    Trim(Filter(ToLowerCase(title), LowerLetters \cup Digits))

normalizeDoi(doi) ==
    TenDot(StripPrefixCI(
               StripUrlPrefix(ToLowerCase(Unquote(doi)),
                              <<"d", "x", ".">>,
                              <<"d", "o", "i", ".", "o", "r", "g", "/">>),
               <<"d", "o", "i", ":">>))

normalizePmid(pmid) ==
    Filter(UpToSlash(
               StripLabel(
                   StripUrlPrefix(Unquote(pmid), << >>,
                                  <<"p", "u", "b", "m", "e", "d", ".", "n", "c", "b", "i",
                                    ".", "n", "l", "m", ".", "n", "i", "h", ".", "g", "o",
                                    "v", "/">>),
                   <<"p", "m", "i", "d">>)),
           Digits)

normalizePmcid(pmcid) ==
    Filter(UpToSlash(
               StripPrefixCI(
                   StripLabel(
                       StripUrlPrefix(Unquote(pmcid), <<"w", "w", "w", ".">>,
                                      <<"n", "c", "b", "i", ".", "n", "l", "m", ".", "n",
                                        "i", "h", ".", "g", "o", "v", "/", "p", "m", "c",
                                        "/", "a", "r", "t", "i", "c", "l", "e", "s", "/">>),
                       <<"p", "m", "c", "i", "d">>),
                   <<"p", "m", "c">>)),
           Digits)

normalizeOpenAlexId(openalexId) ==
    ToLowerCase(StripUrlPrefix(Unquote(openalexId), << >>,
                               <<"o", "p", "e", "n", "a", "l", "e", "x", ".", "o", "r",
                                 "g", "/">>))

normalizeMagId(magId) == Filter(Unquote(magId), Digits)


(***************************************************************************)
(* Literals.                                                               *)
(***************************************************************************)
DoiPrefix == <<"1", "0", ".", "1", "/">>

HttpsPrefix == <<"h", "t", "t", "p", "s", ":", "/", "/">>

OpenAlexHost == HttpsPrefix \o <<"o", "p", "e", "n", "a", "l", "e", "x", ".", "o", "r", "g", "/">>

DoiHost == HttpsPrefix \o <<"d", "o", "i", ".", "o", "r", "g", "/">>

PubmedHost ==
    HttpsPrefix \o <<"p", "u", "b", "m", "e", "d", ".", "n", "c", "b", "i", ".", "n", "l",
                     "m", ".", "n", "i", "h", ".", "g", "o", "v", "/">>

\* The value data takes when no work was found (JavaScript null).
Null == [null |-> TRUE]

(***************************************************************************)
(* VALIDATION_CONFIG (src/lib/validation/types.ts).                        *)
(***************************************************************************)
IDENTIFIER_TYPES == <<"doi", "pmid", "pmcid", "openalex", "mag">>

\* BATCH_SIZES.OPENALEX is 100 and BATCH_SIZES.TITLE is 10 in the source; the
\* model scales both down so that a request of MaxRefs references is split
\* into several batches.
OpenAlexBatchSize == 2

TitleBatchSize == 2

SEMANTIC_SCHOLAR_BATCH_SIZE == 500

\* chunkArray of src/lib/utils.ts
RECURSIVE chunkArray(_, _)
chunkArray(array, size) ==
    IF array = << >> THEN << >>
    ELSE IF Len(array) <= size THEN <<array>>
         ELSE <<SubSeq(array, 1, size)>> \o chunkArray(Drop(array, size), size)

(***************************************************************************)
(* The two providers, as the engine sees them: what a request that         *)
(* succeeds returns.  The records are the providers' raw records (OpenAlex *)
(* gives its identifiers as URLs); the engine's transform functions        *)
(* normalize them.                                                         *)
(***************************************************************************)
NoIds == [doi |-> Absent, pmid |-> Absent, pmcid |-> Absent, openalex |-> Absent,
          mag |-> Absent]

\* OpenAlex works.  The third has no title.
OpenAlexWorks ==
    << [id |-> OpenAlexHost \o <<"W", "1">>,
        doi |-> DoiHost \o DoiPrefix \o <<"A">>,
        title |-> <<"A", " ", "b">>,
        publication_year |-> 2001,
        journal |-> <<"J", "1">>,
        ids |-> [doi |-> DoiHost \o DoiPrefix \o <<"A">>,
                 pmid |-> PubmedHost \o <<"1", "2">>,
                 pmcid |-> Absent,
                 openalex |-> OpenAlexHost \o <<"W", "1">>,
                 mag |-> <<"5">>]],
       [id |-> OpenAlexHost \o <<"W", "2">>,
        doi |-> Absent,
        title |-> <<"-", "-">>,
        publication_year |-> 0,
        journal |-> Absent,
        ids |-> [NoIds EXCEPT !.openalex = OpenAlexHost \o <<"W", "2">>]],
       [id |-> OpenAlexHost \o <<"W", "3">>,
        doi |-> DoiHost \o DoiPrefix \o <<"b">>,
        title |-> Absent,
        publication_year |-> 2003,
        journal |-> Absent,
        ids |-> [NoIds EXCEPT !.doi = DoiHost \o DoiPrefix \o <<"b">>,
                              !.openalex = OpenAlexHost \o <<"W", "3">>]] >>

\* Semantic Scholar papers.
SemanticScholarPapers ==
    << [paperId |-> <<"s", "1">>, title |-> <<"A", " ", "b">>, year |-> 2001,
        journal |-> <<"J", "1">>,
        externalIds |-> [DOI |-> DoiPrefix \o <<"A">>, PubMed |-> <<"1", "2">>,
                         PubMedCentral |-> Absent, MAG |-> <<"5">>]],
       [paperId |-> <<"s", "2">>, title |-> <<"C", "d">>, year |-> 2002,
        journal |-> Absent,
        externalIds |-> [DOI |-> DoiPrefix \o <<"B">>, PubMed |-> Absent,
                         PubMedCentral |-> Absent, MAG |-> Absent]],
       [paperId |-> <<"s", "3">>, title |-> <<"E", "-", "F">>, year |-> 0,
        journal |-> Absent,
        externalIds |-> [DOI |-> Absent, PubMed |-> Absent,
                         PubMedCentral |-> Absent, MAG |-> Absent]],
       [paperId |-> <<"s", "4">>, title |-> <<"G", "H">>, year |-> 2004,
        journal |-> Absent,
        externalIds |-> [DOI |-> Absent, PubMed |-> Absent,
                         PubMedCentral |-> Absent, MAG |-> Absent]] >>

\* The identifier of a raw OpenAlex work for a filter of the given type.
OpenAlexWorkIdentifier(work, type) ==
    CASE type = "doi" -> normalizeDoi(work.doi)
      [] type = "pmid" -> normalizePmid(work.ids.pmid)
      [] type = "pmcid" -> normalizePmcid(work.ids.pmcid)
      [] type = "openalex" -> normalizeOpenAlexId(work.id)
      [] type = "mag" -> normalizeMagId(work.ids.mag)

\* GET /works?filter=<type>:<v1>|<v2>...: the works the filter selects.
OpenAlexFilterResponse(type, identifiers) ==
    LET hit(i) == /\ Truthy(OpenAlexWorkIdentifier(OpenAlexWorks[i], type))
                  /\ \E j \in 1..Len(identifiers) :
                        identifiers[j] = OpenAlexWorkIdentifier(OpenAlexWorks[i], type)
    IN  SelectSeq(OpenAlexWorks, LAMBDA w : \E i \in 1..Len(OpenAlexWorks) :
                                               OpenAlexWorks[i] = w /\ hit(i))

\* GET /works?search=<query>: a relevance search; the model returns every work
\* and leaves the choice to the engine's own title matching.
OpenAlexSearchResponse(query) == OpenAlexWorks

\* The ids Semantic Scholar's batch endpoint knows a paper by.
SemanticScholarPaperIds(paper) ==
    {<<"D", "O", "I", ":">> \o normalizeDoi(paper.externalIds.DOI) :
        d \in IF Truthy(paper.externalIds.DOI) THEN {1} ELSE {}}
    \cup {<<"P", "M", "I", "D", ":">> \o normalizePmid(paper.externalIds.PubMed) :
        d \in IF Truthy(paper.externalIds.PubMed) THEN {1} ELSE {}}
    \cup {<<"P", "M", "C", "I", "D", ":">> \o normalizePmcid(paper.externalIds.PubMedCentral) :
        d \in IF Truthy(paper.externalIds.PubMedCentral) THEN {1} ELSE {}}
    \cup {<<"M", "A", "G", ":">> \o normalizeMagId(paper.externalIds.MAG) :
        d \in IF Truthy(paper.externalIds.MAG) THEN {1} ELSE {}}
    \cup {paper.paperId}

\* POST /paper/batch: the papers of the ids it knows (it answers null for the
\* others, which the transform functions drop).
SemanticScholarBatchResponse(ids) ==
    SelectSeq(SemanticScholarPapers,
              LAMBDA p : \E j \in 1..Len(ids) : ids[j] \in SemanticScholarPaperIds(p))

\* GET /paper/search?query=<query>: as for OpenAlex, every paper.
SemanticScholarSearchResponse(query) == SemanticScholarPapers

(***************************************************************************)
(* The services of the resolution engine (src/lib/store.ts, lines 156-484). *)
(***************************************************************************)
Map(seq, Op(_)) == [i \in 1..Len(seq) |-> Op(seq[i])]

\* JavaScript's a || b on strings.
Or(a, b) == IF Truthy(a) THEN a ELSE b

normalizeIdentifier(type, value) ==
    CASE type = "doi" -> normalizeDoi(value)
      [] type = "pmid" -> normalizePmid(value)
      [] type = "pmcid" -> normalizePmcid(value)
      [] type = "openalex" -> normalizeOpenAlexId(value)
      [] type = "mag" -> normalizeMagId(value)

\* The values of the filter parameter: buildOpenAlexFilter normalizes each.
buildOpenAlexFilter(identifierType, identifiers) ==
    Map(identifiers, LAMBDA v : normalizeIdentifier(identifierType, v))

\* null is the empty sequence here: the caller filters with Boolean.
formatSemanticScholarIdentifier(type, value) ==
    CASE type = "doi" -> <<"D", "O", "I", ":">> \o normalizeDoi(value)
      [] type = "pmid" -> <<"P", "M", "I", "D", ":">> \o normalizePmid(value)
      [] type = "pmcid" -> <<"P", "M", "C", "I", "D", ":">> \o normalizePmcid(value)
      [] type = "mag" -> <<"M", "A", "G", ":">> \o normalizeMagId(value)
      [] OTHER -> << >>

transformOpenAlexResults(results) ==
    Map(SelectSeq(results, LAMBDA r : Truthy(r.title)),
        LAMBDA r :
          [openalex_id |-> normalizeOpenAlexId(r.id),
           s2_id |-> Absent,
           doi |-> normalizeDoi(r.doi),
           title |-> r.title,
           publication_year |-> r.publication_year,
           journal_name |-> r.journal,
           ids |-> [doi |-> normalizeDoi(r.ids.doi),
                    pmid |-> normalizePmid(r.ids.pmid),
                    pmcid |-> normalizePmcid(r.ids.pmcid),
                    openalex |-> normalizeOpenAlexId(r.ids.openalex),
                    mag |-> normalizeMagId(r.ids.mag)]])

transformSemanticScholarResults(papers) ==
    Map(SelectSeq(papers, LAMBDA q : Truthy(q.title)),
        LAMBDA q :
          [openalex_id |-> Absent,
           s2_id |-> q.paperId,
           doi |-> normalizeDoi(q.externalIds.DOI),
           title |-> q.title,
           publication_year |-> q.year,
           journal_name |-> q.journal,
           ids |-> [doi |-> normalizeDoi(q.externalIds.DOI),
                    pmid |-> normalizePmid(q.externalIds.PubMed),
                    pmcid |-> normalizePmcid(q.externalIds.PubMedCentral),
                    openalex |-> Absent,
                    mag |-> normalizeMagId(q.externalIds.MAG)]])

getIdentifierValue(candidate, identifierType) ==
    CASE identifierType = "doi" -> Or(candidate.doi, candidate.ids.doi)
      [] identifierType = "pmid" -> candidate.ids.pmid
      [] identifierType = "pmcid" -> candidate.ids.pmcid
      [] identifierType = "openalex" -> Or(candidate.ids.openalex, candidate.openalex_id)
      [] identifierType = "mag" -> candidate.ids.mag

extractIdentifiersFromCandidates(candidates, identifierType) ==
    SelectSeq(Map(candidates, LAMBDA c : getIdentifierValue(c, identifierType)), Truthy)

\* The Map<string, string> of createS2IdMap, as the sequence of its set()
\* calls in order.
createS2IdMap(s2Results, identifierType) ==
    Map(SelectSeq(s2Results,
                  LAMBDA r : /\ Truthy(r.s2_id)
                             /\ Truthy(getIdentifierValue(r, identifierType))),
        LAMBDA r : [key |-> getIdentifierValue(r, identifierType), value |-> r.s2_id])

\* s2IdMap.get(key): the value set last for the key, Absent for undefined.
s2IdMapGet(s2IdMap, key) ==
    LET hits == SelectSeq(s2IdMap, LAMBDA e : e.key = key)
    IN  IF hits = << >> THEN Absent ELSE Last(hits).value

\* The formatted ids searchSemanticScholarByIdentifiers asks the batch
\* endpoint for; when there are none it returns [] without a request.
SemanticScholarFormattedIds(identifierType, identifiers) ==
    SelectSeq(Map(identifiers, LAMBDA v : formatSemanticScholarIdentifier(identifierType, v)),
              Truthy)

\* searchSemanticScholarByIdentifiers when every request succeeds: one request
\* for each chunk of SEMANTIC_SCHOLAR_BATCH_SIZE ids.
RECURSIVE ConcatAll(_)
ConcatAll(seqs) == IF seqs = << >> THEN << >> ELSE Head(seqs) \o ConcatAll(Tail(seqs))

searchSemanticScholarByIdentifiers(identifierType, identifiers) ==
    LET formattedIds == SemanticScholarFormattedIds(identifierType, identifiers)
        batches == chunkArray(formattedIds, SEMANTIC_SCHOLAR_BATCH_SIZE)
    IN  ConcatAll(Map(batches,
                      LAMBDA b : transformSemanticScholarResults(
                                     SemanticScholarBatchResponse(b))))

\* The loop of enrichWithSemanticScholarIds (lines 284-294) over the candidates.
applyS2Ids(candidates, s2Results, identifierType) ==
    LET s2IdMap == createS2IdMap(s2Results, identifierType)
    IN  Map(candidates,
            LAMBDA c :
              IF Truthy(c.s2_id) THEN c
              ELSE IF Truthy(getIdentifierValue(c, identifierType))
                      /\ Truthy(s2IdMapGet(s2IdMap, getIdentifierValue(c, identifierType)))
                   THEN [c EXCEPT !.s2_id =
                             s2IdMapGet(s2IdMap, getIdentifierValue(c, identifierType))]
                   ELSE c)

\* Whether enrichWithSemanticScholarIds sends a request to Semantic Scholar.
EnrichmentSendsRequest(candidates, identifierType) ==
    /\ candidates # << >>
    /\ SemanticScholarFormattedIds(identifierType,
           extractIdentifiersFromCandidates(candidates, identifierType)) # << >>

\* enrichWithSemanticScholarIds, but losing the candidates' identifiers when
\* the request to Semantic Scholar fails.
enrichWithSemanticScholarIdsLosing(candidates, identifierType, ok) ==
    IF ~EnrichmentSendsRequest(candidates, identifierType) THEN candidates
    ELSE IF ~ok
    THEN Map(candidates, LAMBDA c : [c EXCEPT !.doi = Absent, !.openalex_id = Absent,
                                              !.ids = NoIds])
    ELSE applyS2Ids(candidates,
                    searchSemanticScholarByIdentifiers(
                        identifierType,
                        extractIdentifiersFromCandidates(candidates, identifierType)),
                    identifierType)

\* enrichWithSemanticScholarIds: the candidates as it leaves them.  ok tells
\* whether Semantic Scholar answered the request (if one is sent); when it did
\* not, the catch block leaves the candidates as they were.
enrichWithSemanticScholarIds(candidates, identifierType, ok) ==
    IF ~EnrichmentSendsRequest(candidates, identifierType) \/ ~ok THEN candidates
    ELSE applyS2Ids(candidates,
                    searchSemanticScholarByIdentifiers(
                        identifierType,
                        extractIdentifiersFromCandidates(candidates, identifierType)),
                    identifierType)

(***************************************************************************)
(* The processors of the resolution engine (src/lib/store.ts, 486-1066).   *)
(***************************************************************************)
createEmptyResult(id, searchedByTitle) ==
    [id |-> id, found |-> FALSE, searched_by_title |-> searchedByTitle, data |-> Null]

transformCandidateToResult(id, candidate, searchedByTitle) ==
    [id |-> id,
     found |-> TRUE,
     searched_by_title |-> searchedByTitle,
     data |-> [title |-> candidate.title,
               doi |-> candidate.doi,
               journal |-> candidate.journal_name,
               openalex_id |-> Or(candidate.ids.openalex, candidate.openalex_id),
               s2_id |-> candidate.s2_id,
               year |-> candidate.publication_year]]

\* context.resultMap is a Map from the reference id to its outcome, kept here
\* as the sequence of its values in insertion order.
MapHas(map, id) == \E i \in 1..Len(map) : map[i].id = id

MapGet(map, id) == map[CHOOSE i \in 1..Len(map) : map[i].id = id]

MapSet(map, id, value) ==
    IF MapHas(map, id)
    THEN [i \in 1..Len(map) |-> IF map[i].id = id THEN value ELSE map[i]]
    ELSE Append(map, value)

\* updateSingleResult, but marking the stored outcome found and keeping its
\* data.
updateSingleResultKeepingData(resultMap, refId, candidate, searchedByTitle) ==
    IF MapHas(resultMap, refId)
    THEN MapSet(resultMap, refId, [MapGet(resultMap, refId) EXCEPT !.found = TRUE])
    ELSE resultMap

updateSingleResult(resultMap, refId, candidate, searchedByTitle) ==
    MapSet(resultMap, refId, transformCandidateToResult(refId, candidate, searchedByTitle))

\* The key createCandidateMap files a candidate under.
candidateKey(candidate, identifierType) ==
    CASE identifierType = "doi" -> Or(candidate.doi, candidate.ids.doi)
      [] identifierType = "pmid" -> candidate.ids.pmid
      [] identifierType = "pmcid" -> candidate.ids.pmcid
      [] identifierType = "openalex" -> Or(candidate.openalex_id, candidate.ids.openalex)
      [] identifierType = "mag" -> candidate.ids.mag

\* createCandidateMap, read at value: the candidates with that key (the Map
\* keeps the last one set for a key).
candidatesWithKey(candidates, identifierType, value) ==
    SelectSeq(candidates, LAMBDA c : /\ Truthy(candidateKey(c, identifierType))
                                     /\ candidateKey(c, identifierType) = value)

RECURSIVE updateResultsWithCandidates(_, _, _, _, _)
updateResultsWithCandidates(refs, candidates, identifierType, resultMap, searchedByTitle) ==
    IF refs = << >> THEN resultMap
    ELSE LET hits == candidatesWithKey(candidates, identifierType, Head(refs).value)
             next == IF hits = << >> THEN resultMap
                     ELSE updateSingleResult(resultMap, Head(refs).ref.id, Last(hits),
                                             searchedByTitle)
         IN  updateResultsWithCandidates(Tail(refs), candidates, identifierType, next,
                                         searchedByTitle)

findLastTitleMatch(targetTitle, candidates) ==
    LET normalizedTarget == normalizeText(targetTitle)
        matches == {i \in 1..Len(candidates) :
                       normalizedTarget = normalizeText(candidates[i].title)}
    IN  IF matches = {} THEN 0 ELSE CHOOSE i \in matches : \A j \in matches : i >= j

\* findBestTitleMatch: the index of the first candidate whose normalized title
\* equals the target's, 0 (null) when there is none.
findBestTitleMatch(targetTitle, candidates) ==
    LET normalizedTarget == normalizeText(targetTitle)
        matches == {i \in 1..Len(candidates) :
                       normalizedTarget = normalizeText(candidates[i].title)}
    IN  IF matches = {} THEN 0 ELSE CHOOSE i \in matches : \A j \in matches : i <= j

everyRefOf(refs, resultMap) == refs

\* The references of refs that have an outcome which is not found (the
\* filters of lines 738-741, 853-856).
notFoundOf(refs, resultMap) ==
    SelectSeq(refs, LAMBDA r : MapHas(resultMap, r.ref.id)
                               /\ ~MapGet(resultMap, r.ref.id).found)

RefField(ref, type) ==
    CASE type = "doi" -> ref.doi
      [] type = "pmid" -> ref.pmid
      [] type = "pmcid" -> ref.pmcid
      [] type = "openalex" -> ref.openalex
      [] type = "mag" -> ref.mag

EmptyContext ==
    [identifierRefs |-> [t \in {"doi", "pmid", "pmcid", "openalex", "mag"} |-> << >>],
     titleRefs |-> << >>,
     resultMap |-> << >>,
     deduplicationStats |-> [t \in {"doi", "pmid", "pmcid", "openalex", "mag"} |-> 0],
     processedRefs |-> {},
     uniqueIdentifiers |-> [t \in {"doi", "pmid", "pmcid", "openalex", "mag"} |-> {}]]

\* processIdentifierReference, but leaving a duplicate uncounted.
processIdentifierReferenceUncounted(type, ref, normalizedValue, context) ==
    IF normalizedValue \notin context.uniqueIdentifiers[type]
    THEN [context EXCEPT
            !.uniqueIdentifiers[type] = @ \cup {normalizedValue},
            !.identifierRefs[type] = Append(@, [ref |-> ref, value |-> normalizedValue]),
            !.resultMap = MapSet(@, ref.id, createEmptyResult(ref.id, FALSE)),
            !.processedRefs = @ \cup {ref.id}]
    ELSE [context EXCEPT !.processedRefs = @ \cup {ref.id}]

\* processIdentifierReference: the context after it (it always returns true).
processIdentifierReference(type, ref, normalizedValue, context) ==
    IF normalizedValue \notin context.uniqueIdentifiers[type]
    THEN [context EXCEPT
            !.uniqueIdentifiers[type] = @ \cup {normalizedValue},
            !.identifierRefs[type] = Append(@, [ref |-> ref, value |-> normalizedValue]),
            !.resultMap = MapSet(@, ref.id, createEmptyResult(ref.id, FALSE)),
            !.processedRefs = @ \cup {ref.id}]
    ELSE [context EXCEPT
            !.deduplicationStats[type] = @ + 1,
            !.processedRefs = @ \cup {ref.id}]

\* One turn of the grouping loop of initializeProcessingContext (549-623).
groupReference(context, ref) ==
    LET present == {i \in 1..Len(IDENTIFIER_TYPES) : Truthy(RefField(ref, IDENTIFIER_TYPES[i]))}
        first == CHOOSE i \in present : \A j \in present : i <= j
        type == IDENTIFIER_TYPES[first]
    IN  IF ref.id \in context.processedRefs THEN context
        ELSE IF present # {}
             THEN processIdentifierReference(
                      type, ref, normalizeIdentifier(type, RefField(ref, type)), context)
             ELSE IF Truthy(ref.title)
                  THEN [context EXCEPT
                          !.titleRefs = Append(@, ref),
                          !.resultMap = MapSet(@, ref.id, createEmptyResult(ref.id, TRUE)),
                          !.processedRefs = @ \cup {ref.id}]
                  ELSE context

RECURSIVE groupReferences(_, _)
groupReferences(context, references) ==
    IF references = << >> THEN context
    ELSE groupReferences(groupReference(context, Head(references)), Tail(references))

initializeProcessingContext(references) == groupReferences(EmptyContext, references)

\* extractResults: the results and the cleaned deduplication map (a zero entry
\* is left out of the map: the domain holds only the types counted).
extractResults(resultMap, deduplicationStats) ==
    [results |-> resultMap,
     deduplication |->
        [t \in {u \in DOMAIN deduplicationStats : deduplicationStats[u] > 0} |->
            deduplicationStats[t]]]

(***************************************************************************)
(* The provider clients' failures.                                         *)
(***************************************************************************)
\* What a request to OpenAlex can come to: an answer, an HTTP error status, an
\* answer that is not JSON, an abort by the 30 s timer, a transport error.
OpenAlexOutcomes == {"ok", "429", "404", "500", "400", "badjson", "timeout", "network"}

\* The APIError rateLimitedFetch (src/unnamed/part_005) throws for an outcome
\* other than "ok".
rateLimitedFetchError(outcome) ==
    CASE outcome = "429" ->
           [code |-> "TOO_MANY_REQUESTS",
            message |-> "OpenAlex API rate limit exceeded, please try again later"]
      [] outcome = "404" ->
           [code |-> "NOT_FOUND",
            message |-> "The requested resource could not be found in OpenAlex"]
      [] outcome = "500" ->
           [code |-> "INTERNAL_SERVER_ERROR",
            message |-> "OpenAlex service is currently experiencing issues, please try again later"]
      [] outcome = "400" ->
           [code |-> "BAD_REQUEST", message |-> "OpenAlex API error"]
      [] outcome = "badjson" ->
           [code |-> "INTERNAL_SERVER_ERROR",
            message |-> "Invalid response format from OpenAlex API"]
      [] outcome = "timeout" ->
           [code |-> "TIMEOUT",
            message |-> "OpenAlex API request timed out, please try again later"]
      [] outcome = "network" ->
           [code |-> "INTERNAL_SERVER_ERROR",
            message |-> "Failed to fetch data from OpenAlex API"]

\* handleOpenAlexError rethrows an APIError as it is (rateLimitedFetch throws
\* nothing else).
handleOpenAlexError(error) == error

\* The catch block of validateSeedReferences (src/lib/validation/index.ts,
\* 71-78): what it throws for the error it caught.
validateSeedReferencesError(error) ==
    [code |-> "INTERNAL_SERVER_ERROR",
     message |-> "Error validating seed references",
     cause |-> error]

getStatusCodeFromErrorCode(code) ==
    CASE code = "BAD_REQUEST" -> 400
      [] code = "UNAUTHORIZED" -> 401
      [] code = "FORBIDDEN" -> 403
      [] code = "NOT_FOUND" -> 404
      [] code = "TOO_MANY_REQUESTS" -> 429
      [] OTHER -> 500

\* The response of POST /api/validate-seed-references for an APIError.
routeErrorResponse(error) ==
    [status |-> getStatusCodeFromErrorCode(error.code),
     error |-> error.message,
     code |-> error.code]

(***************************************************************************)
(* The seed references a request is made of.                               *)
(***************************************************************************)
NoSeed == [title |-> Absent, doi |-> Absent, pmid |-> Absent, pmcid |-> Absent,
           openalex |-> Absent, mag |-> Absent]

SeedShapes ==
    << [NoSeed EXCEPT !.doi = DoiPrefix \o <<"a">>, !.title = <<"A", " ", "b">>],
       [NoSeed EXCEPT !.doi = <<"D", "O", "I", ":">> \o DoiPrefix \o <<"A">>],
       [NoSeed EXCEPT !.doi = DoiPrefix \o <<"b">>, !.title = <<"C", "d">>],
       [NoSeed EXCEPT !.doi = DoiPrefix \o <<"c">>, !.title = <<"E", "f">>],
       [NoSeed EXCEPT !.pmid = <<"P", "M", "I", "D", ":", "1", "2">>],
       [NoSeed EXCEPT !.title = <<"A", " ", "b">>],
       NoSeed,
       [NoSeed EXCEPT !.doi = DoiPrefix \o <<"d">>, !.title = <<"Z">>],
       [NoSeed EXCEPT !.openalex = OpenAlexHost \o <<"W", "1">>],
       [NoSeed EXCEPT !.title = <<"?">>] >>

\* A request: the shapes chosen, each given its position as id.
SeedReferences(shapes) ==
    [i \in 1..Len(shapes) |->
        [id |-> i,
         title |-> SeedShapes[shapes[i]].title,
         doi |-> SeedShapes[shapes[i]].doi,
         pmid |-> SeedShapes[shapes[i]].pmid,
         pmcid |-> SeedShapes[shapes[i]].pmcid,
         openalex |-> SeedShapes[shapes[i]].openalex,
         mag |-> SeedShapes[shapes[i]].mag]]

(***************************************************************************)
(* The state of one call of validateSeedReferences and of the route that   *)
(* made it.                                                                *)
(***************************************************************************)
(***************************************************************************)
(* The citation search (src/lib/citations).  A Citation carries the fields *)
(* the engine reads when it keys and merges; journal stands for the        *)
(* bibliographic fields merged alike (pages, volume, number, authors).     *)
(* The random id a transform gives each record is left out.                *)
(***************************************************************************)
\* The most records one provider returns for one direction.
MaxCited == 2

\* CitationProvider and CitationDirection.
CitationProviders == {"openalex", "semantic_scholar", "both"}

CitationDirections == {"backward", "forward", "both"}

Wants(direction, d) == direction \in {d, "both"}

\* The works OpenAlex can return to a citation search, as it gives them.
\* The second has no DOI; Semantic Scholar does not know the third.
OpenAlexCitedWorks ==
    << [id |-> OpenAlexHost \o <<"W", "1">>,
        doi |-> DoiHost \o DoiPrefix \o <<"A">>,
        title |-> <<"A", " ", "b">>,
        journal |-> <<"J", "1">>,
        ids |-> [pmid |-> Absent, openalex |-> OpenAlexHost \o <<"W", "1">>]],
       [id |-> OpenAlexHost \o <<"W", "2">>,
        doi |-> Absent,
        title |-> <<"C", "d">>,
        journal |-> Absent,
        ids |-> [pmid |-> PubmedHost \o <<"1", "2">>,
                 openalex |-> OpenAlexHost \o <<"W", "2">>]],
       [id |-> OpenAlexHost \o <<"W", "3">>,
        doi |-> DoiHost \o DoiPrefix \o <<"n">>,
        title |-> <<"E", "f">>,
        journal |-> Absent,
        ids |-> [pmid |-> Absent, openalex |-> OpenAlexHost \o <<"W", "3">>]] >>

\* The papers Semantic Scholar can return as references or citations.  The
\* first is the first work of OpenAlex; the second has no DOI; the third
\* has no abstract.
SemanticScholarCitedPapers ==
    << [paperId |-> <<"s", "1">>, title |-> <<"A", " ", "b">>, abstract |-> <<"x">>,
        journal |-> <<"J", "9">>,
        externalIds |-> [DOI |-> DoiPrefix \o <<"A">>, PubMed |-> Absent]],
       [paperId |-> <<"s", "2">>, title |-> <<"C", "d">>, abstract |-> <<"y">>,
        journal |-> <<"J", "2">>,
        externalIds |-> [DOI |-> Absent, PubMed |-> <<"1", "2">>]],
       [paperId |-> <<"s", "3">>, title |-> <<"G", "h">>, abstract |-> Absent,
        journal |-> Absent,
        externalIds |-> [DOI |-> DoiPrefix \o <<"q">>, PubMed |-> Absent]] >>

\* The lists a provider can return: at most MaxCited of the n records of its
\* catalogue, in the catalogue's order.
CitedLists(n) ==
    {s \in UNION {[1..k -> 1..n] : k \in 0..MaxCited} :
        \A i \in 1..Len(s) : \A j \in 1..Len(s) : i < j => s[i] < s[j]}

\* The lists of several papers one after the other, as a search pushes them:
\* a record two papers share comes twice.
SharedCitedLists(n) == UNION {[1..k -> 1..n] : k \in 0..MaxCited}

\* The lists a provider can return for the inputs it is asked about.
ListsFor(inputs, n) == IF Len(inputs) > 1 THEN SharedCitedLists(n) ELSE CitedLists(n)

Pick(catalogue, indices) == [i \in 1..Len(indices) |-> catalogue[indices[i]]]

\* A Map<string, T> of JavaScript: its entries in insertion order.  set on a
\* key the map has keeps the entry's place.
KeyHas(map, key) == \E i \in 1..Len(map) : map[i].key = key

KeyGet(map, key) == map[CHOOSE i \in 1..Len(map) : map[i].key = key].value

KeySet(map, key, value) ==
    IF KeyHas(map, key)
    THEN [i \in 1..Len(map) |->
            IF map[i].key = key THEN [key |-> key, value |-> value] ELSE map[i]]
    ELSE Append(map, [key |-> key, value |-> value])

Values(map) == [i \in 1..Len(map) |-> map[i].value]

DoiKey == <<"d", "o", "i", ":">>

OpenAlexKey == <<"o", "p", "e", "n", "a", "l", "e", "x", ":">>

S2Key == <<"s", "2", ":">>

PmidKey == <<"p", "m", "i", "d", ":">>

TitleKey == <<"t", "i", "t", "l", "e", ":">>

\* generateCitationKey, but trying the OpenAlex id before the DOI.
generateCitationKeyOpenAlexFirst(citation) ==
    IF Truthy(citation.openalex_id)
    THEN OpenAlexKey \o normalizeOpenAlexId(citation.openalex_id)
    ELSE IF Truthy(citation.doi) THEN DoiKey \o normalizeDoi(citation.doi)
    ELSE IF Truthy(citation.s2_id) THEN S2Key \o citation.s2_id
    ELSE IF Truthy(citation.pmid) THEN PmidKey \o citation.pmid
    ELSE TitleKey \o normalizeText(citation.title)

\* generateCitationKey
generateCitationKey(citation) ==
    IF Truthy(citation.doi) THEN DoiKey \o normalizeDoi(citation.doi)
    ELSE IF Truthy(citation.openalex_id)
    THEN OpenAlexKey \o normalizeOpenAlexId(citation.openalex_id)
    ELSE IF Truthy(citation.s2_id) THEN S2Key \o citation.s2_id
    ELSE IF Truthy(citation.pmid) THEN PmidKey \o citation.pmid
    ELSE TitleKey \o normalizeText(citation.title)

\* enrichCitationWithS2Data, but keeping the abstract of the record the map
\* has.
enrichCitationWithS2DataKeepingAbstract(existing, s2Citation) ==
    [existing EXCEPT !.s2_id = Or(existing.s2_id, s2Citation.s2_id),
                     !.journal = Or(existing.journal, s2Citation.journal)]

enrichCitationDroppingDoi(existing, s2Citation) ==
    [existing EXCEPT !.doi = Absent, !.s2_id = Or(existing.s2_id, s2Citation.s2_id)]

\* enrichCitationWithS2Data
enrichCitationWithS2Data(existing, s2Citation) ==
    [existing EXCEPT !.s2_id = Or(existing.s2_id, s2Citation.s2_id),
                     !.abstract = Or(s2Citation.abstract, existing.abstract),
                     !.journal = Or(existing.journal, s2Citation.journal)]

\* One record of transformOpenAlexToCitations.  A normalizer gives the empty
\* string for an absent value, which is as falsy as undefined.
openAlexCitation(item) ==
    [doi |-> normalizeDoi(item.doi),
     pmid |-> normalizePmid(item.ids.pmid),
     openalex_id |-> normalizeOpenAlexId(Or(item.id, item.ids.openalex)),
     s2_id |-> Absent,
     title |-> item.title,
     abstract |-> Absent,
     journal |-> item.journal]

HasTitle(item) == Truthy(item.title)

\* transformOpenAlexToCitations
transformOpenAlexToCitations(results) == Map(SelectSeq(results, HasTitle), openAlexCitation)

\* One record of transformS2CitationsToCitations.
semanticScholarCitation(citation) ==
    [doi |-> normalizeDoi(citation.externalIds.DOI),
     pmid |-> normalizePmid(citation.externalIds.PubMed),
     openalex_id |-> Absent,
     s2_id |-> citation.paperId,
     title |-> citation.title,
     abstract |-> citation.abstract,
     journal |-> citation.journal]

\* transformS2CitationsToCitations: the records it returns ...
transformS2CitationsToCitations(s2Citations) ==
    Map(SelectSeq(s2Citations, HasTitle), semanticScholarCitation)

\* ... and what it stores in abstractsMap on the way.
storeAbstract(abstractsMap, citation) ==
    IF HasTitle(citation) /\ Truthy(citation.abstract) /\ Truthy(citation.externalIds.DOI)
    THEN KeySet(abstractsMap, normalizeDoi(citation.externalIds.DOI), citation.abstract)
    ELSE abstractsMap

RECURSIVE storeAbstracts(_, _)
storeAbstracts(abstractsMap, s2Citations) ==
    IF s2Citations = << >> THEN abstractsMap
    ELSE storeAbstracts(storeAbstract(abstractsMap, Head(s2Citations)), Tail(s2Citations))

HasOpenAlexId(input) == Truthy(input.openalex_id)

HasS2Id(input) == Truthy(input.s2_id)

\* searchOpenAlexCitations for a request of one paper.  cited is what
\* OpenAlex has for the paper in each direction, ok whether its requests
\* succeed: searchOpenAlexBackwardCitations, fetchOpenAlexWorkDetails and
\* searchOpenAlexForwardCitations each catch a failed request and return
\* the records read so far, which are none.
searchOpenAlexCitations(inputs, direction, cited, ok) ==
    IF SelectSeq(inputs, HasOpenAlexId) = << >>
    THEN [backward |-> << >>, forward |-> << >>]
    ELSE [backward |-> IF Wants(direction, "backward") /\ ok
                       THEN transformOpenAlexToCitations(cited.backward) ELSE << >>,
          forward |-> IF Wants(direction, "forward") /\ ok
                      THEN transformOpenAlexToCitations(cited.forward) ELSE << >>]

\* The parts of a paper searchSemanticScholarCitations reads for a direction.
WantedOf(direction, d, list) == IF Wants(direction, d) THEN list ELSE << >>

\* The papers searchSemanticScholarCitations asks for with one request.
SemanticScholarCitationBatchSize == 1

SemanticScholarCitationBatches(inputs) ==
    chunkArray(SelectSeq(inputs, HasS2Id), SemanticScholarCitationBatchSize)

\* What the response to batch b of n holds of a list of cited papers: the
\* lists of the papers follow each other in the order of the batches.
CitedOfBatch(list, b, n) ==
    IF b < n THEN (IF b <= Len(list) THEN SubSeq(list, b, b) ELSE << >>)
    ELSE SubSeq(list, n, Len(list))

\* searchSemanticScholarCitations: cited is the references and citations of
\* the papers, failed the batch whose request fails, 0 when none does.  The
\* loop over the batches is in one try, and a failed request is thrown on as
\* an APIError.
searchSemanticScholarCitations(inputs, direction, cited, failed) ==
    IF SelectSeq(inputs, HasS2Id) = << >>
    THEN [ok |-> TRUE, backward |-> << >>, forward |-> << >>, abstractsMap |-> << >>]
    ELSE IF failed # 0
    THEN [ok |-> FALSE,
          error |-> [code |-> "INTERNAL_SERVER_ERROR",
                     message |-> "Error searching citations in Semantic Scholar"]]
    ELSE [ok |-> TRUE,
          backward |->
              transformS2CitationsToCitations(WantedOf(direction, "backward", cited.references)),
          forward |->
              transformS2CitationsToCitations(WantedOf(direction, "forward", cited.citations)),
          abstractsMap |->
              storeAbstracts(
                  storeAbstracts(<< >>, WantedOf(direction, "backward", cited.references)),
                  WantedOf(direction, "forward", cited.citations))]

NoStatistics ==
    [sources |-> [openalex |-> [backward |-> 0, forward |-> 0],
                  semanticScholar |-> [backward |-> 0, forward |-> 0]],
     backwardProviderOverlap |-> 0,
     forwardProviderOverlap |-> 0]

\* initializeCitationContext
initializeCitationContext(inputs, options) ==
    [searchInputs |-> inputs,
     options |-> options,
     backwardCitations |-> << >>,
     forwardCitations |-> << >>,
     processedIds |-> {},
     abstractsMap |-> << >>,
     statistics |-> NoStatistics]

addNewCitationToEmptyMap(map, key, citation) ==
    IF map # << >> THEN map ELSE Append(map, [key |-> key, value |-> citation])

\* The forEach of processOpenAlexCitations: a record whose key the map has
\* is dropped.
addNewCitation(map, key, citation) ==
    IF KeyHas(map, key) THEN map ELSE Append(map, [key |-> key, value |-> citation])

RECURSIVE addNewCitations(_, _)
addNewCitations(map, citations) ==
    IF citations = << >> THEN map
    ELSE addNewCitations(
             addNewCitation(map, generateCitationKey(Head(citations)), Head(citations)),
             Tail(citations))

storeOpenAlexCitations(context, backward, forward) ==
    [context EXCEPT
        !.backwardCitations = backward,
        !.forwardCitations = forward,
        !.statistics.sources.openalex.backward = @ + Len(backward) - Len(context.backwardCitations),
        !.statistics.sources.openalex.forward = @ + Len(forward) - Len(context.forwardCitations)]

\* processOpenAlexCitations, from the return of searchOpenAlexCitations on.
processOpenAlexCitations(context, found) ==
    IF context.options.provider = "semantic_scholar" THEN context
    ELSE storeOpenAlexCitations(context,
             addNewCitations(context.backwardCitations, found.backward),
             addNewCitations(context.forwardCitations, found.forward))

\* The forEach of processSemanticScholarCitations: a record whose key the
\* map has is merged into the record of the map.
addOrEnrichCitation(map, key, citation) ==
    IF ~KeyHas(map, key) THEN Append(map, [key |-> key, value |-> citation])
    ELSE KeySet(map, key, enrichCitationWithS2Data(KeyGet(map, key), citation))

RECURSIVE addOrEnrichCitations(_, _)
addOrEnrichCitations(map, citations) ==
    IF citations = << >> THEN map
    ELSE addOrEnrichCitations(
             addOrEnrichCitation(map, generateCitationKey(Head(citations)), Head(citations)),
             Tail(citations))

RECURSIVE setAbstracts(_, _)
setAbstracts(abstractsMap, entries) ==
    IF entries = << >> THEN abstractsMap
    ELSE setAbstracts(KeySet(abstractsMap, Head(entries).key, Head(entries).value),
                      Tail(entries))

storeCountingMerged(context, found, backward, forward, newBackward, newForward) ==
    [context EXCEPT
        !.abstractsMap = setAbstracts(@, found.abstractsMap),
        !.backwardCitations = backward,
        !.forwardCitations = forward,
        !.statistics.sources.semanticScholar.backward = @ + Len(found.backward),
        !.statistics.sources.semanticScholar.forward = @ + Len(found.forward),
        !.statistics.backwardProviderOverlap = @ + Len(found.backward) - newBackward,
        !.statistics.forwardProviderOverlap = @ + Len(found.forward) - newForward]

\* newBackward and newForward are the records appended; every other record
\* of found was merged and counted as an overlap of the two providers.
storeSemanticScholarCitations(context, found, backward, forward, newBackward, newForward) ==
    [context EXCEPT
        !.abstractsMap = setAbstracts(@, found.abstractsMap),
        !.backwardCitations = backward,
        !.forwardCitations = forward,
        !.statistics.sources.semanticScholar.backward = @ + newBackward,
        !.statistics.sources.semanticScholar.forward = @ + newForward,
        !.statistics.backwardProviderOverlap = @ + Len(found.backward) - newBackward,
        !.statistics.forwardProviderOverlap = @ + Len(found.forward) - newForward]

mergeSemanticScholarCitations(context, found, backward, forward) ==
    storeSemanticScholarCitations(context, found, backward, forward,
        Len(backward) - Len(context.backwardCitations),
        Len(forward) - Len(context.forwardCitations))

\* processSemanticScholarCitations, but a failed search empties the context.
processSemanticScholarCitationsLosing(context, found) ==
    IF context.options.provider = "openalex" THEN context
    ELSE IF ~found.ok
    THEN initializeCitationContext(context.searchInputs, context.options)
    ELSE mergeSemanticScholarCitations(context, found,
             addOrEnrichCitations(context.backwardCitations, found.backward),
             addOrEnrichCitations(context.forwardCitations, found.forward))

\* processSemanticScholarCitations, from the return of
\* searchSemanticScholarCitations on: what the search throws is caught.
processSemanticScholarCitations(context, found) ==
    IF context.options.provider = "openalex" THEN context
    ELSE IF ~found.ok THEN context
    ELSE mergeSemanticScholarCitations(context, found,
             addOrEnrichCitations(context.backwardCitations, found.backward),
             addOrEnrichCitations(context.forwardCitations, found.forward))

\* enrichWithAbstracts: the records it asks Semantic Scholar about ...
NeedsAbstract(citation) ==
    ~Truthy(citation.abstract) /\ (Truthy(citation.doi) \/ Truthy(citation.s2_id))

HasDoiOnly(citation) == Truthy(citation.doi) /\ ~Truthy(citation.s2_id)

S2IdOf(citation) == citation.s2_id

DoiId == <<"D", "O", "I", ":">>

DoiIdOf(citation) == DoiId \o citation.doi

\* ... the ids it sends, allIds ...
abstractIdsOf(needing) ==
    Map(SelectSeq(needing, HasS2Id), S2IdOf) \o Map(SelectSeq(needing, HasDoiOnly), DoiIdOf)

abstractIds(citations) == abstractIdsOf(SelectSeq(citations, NeedsAbstract))

\* ... and what Semantic Scholar answers: for each id the paper it has under
\* that id, null for an id it does not know.
SemanticScholarKnows(paper, id) ==
    \/ paper.paperId = id
    \/ /\ Truthy(paper.externalIds.DOI)
       /\ HasPrefix(id, DoiId)
       /\ normalizeDoi(Drop(id, Len(DoiId))) = normalizeDoi(paper.externalIds.DOI)

SemanticScholarPaperOf(id) ==
    IF \E i \in 1..Len(SemanticScholarCitedPapers) :
           SemanticScholarKnows(SemanticScholarCitedPapers[i], id)
    THEN SemanticScholarCitedPapers[
             CHOOSE i \in 1..Len(SemanticScholarCitedPapers) :
                 SemanticScholarKnows(SemanticScholarCitedPapers[i], id)]
    ELSE Null

readAbstract(abstractsFromS2, paper) ==
    IF ~Truthy(paper.abstract) THEN abstractsFromS2
    ELSE IF Truthy(paper.externalIds.DOI)
    THEN KeySet(KeySet(abstractsFromS2, paper.paperId, paper.abstract),
                normalizeDoi(paper.externalIds.DOI), paper.abstract)
    ELSE KeySet(abstractsFromS2, paper.paperId, paper.abstract)

\* The loop over the papers of a batch: reading the abstract of a null
\* throws, and the catch of the batch keeps what was read before it.
RECURSIVE readAbstracts(_, _)
readAbstracts(abstractsFromS2, papers) ==
    IF papers = << >> THEN abstractsFromS2
    ELSE IF Head(papers) = Null THEN abstractsFromS2
    ELSE readAbstracts(readAbstract(abstractsFromS2, Head(papers)), Tail(papers))

\* The ids of a request of the model fit in one batch of 400; ok is whether
\* its request succeeds.
fetchAbstracts(allIds, ok) ==
    IF ok THEN readAbstracts(<< >>, Map(allIds, SemanticScholarPaperOf)) ELSE << >>

withFetchedAbstract(citation, abstractsFromS2) ==
    IF Truthy(citation.abstract) THEN citation
    ELSE IF Truthy(citation.s2_id) /\ KeyHas(abstractsFromS2, citation.s2_id)
    THEN [citation EXCEPT !.abstract = KeyGet(abstractsFromS2, citation.s2_id)]
    ELSE IF Truthy(citation.doi) /\ KeyHas(abstractsFromS2, normalizeDoi(citation.doi))
    THEN [citation EXCEPT !.abstract = KeyGet(abstractsFromS2, normalizeDoi(citation.doi))]
    ELSE citation

withFetchedAbstracts(citations, abstractsFromS2) ==
    [i \in 1..Len(citations) |-> withFetchedAbstract(citations[i], abstractsFromS2)]

withStoredAbstract(citation, abstractsMap) ==
    IF /\ ~Truthy(citation.abstract)
       /\ Truthy(citation.doi)
       /\ KeyHas(abstractsMap, normalizeDoi(citation.doi))
    THEN [citation EXCEPT !.abstract = KeyGet(abstractsMap, normalizeDoi(citation.doi))]
    ELSE citation

\* enrichWithAbstracts
enrichWithAbstracts(citations, abstractsMap, ok) ==
    IF abstractsMap # << >>
    THEN [i \in 1..Len(citations) |-> withStoredAbstract(citations[i], abstractsMap)]
    ELSE IF abstractIds(citations) = << >> THEN citations
    ELSE withFetchedAbstracts(citations, fetchAbstracts(abstractIds(citations), ok))

\* A map filled by set under each record's key.
RECURSIVE setCitations(_, _)
setCitations(map, citations) ==
    IF citations = << >> THEN map
    ELSE setCitations(KeySet(map, generateCitationKey(Head(citations)), Head(citations)),
                      Tail(citations))

\* Whether enrichCitationsWithAbstracts sends a request.
AbstractsRequested(context) ==
    /\ context.options.provider # "semantic_scholar"
    /\ context.abstractsMap = << >>
    /\ \/ abstractIds(Values(context.backwardCitations)) # << >>
       \/ abstractIds(Values(context.forwardCitations)) # << >>

\* enrichCitationsWithAbstracts
enrichCitationsWithAbstracts(context, ok) ==
    IF context.options.provider = "semantic_scholar" \/ context.abstractsMap # << >>
    THEN context
    ELSE [context EXCEPT
             !.backwardCitations =
                 setCitations(<< >>, enrichWithAbstracts(Values(@), context.abstractsMap, ok)),
             !.forwardCitations =
                 setCitations(<< >>, enrichWithAbstracts(Values(@), context.abstractsMap, ok))]

citationKeys(citations) == {generateCitationKey(citations[i]) : i \in 1..Len(citations)}

\* combined of extractCitationResults, but every record of both lists.
combineCitationsAppending(backward, forward) == backward \o forward

\* combined of extractCitationResults: the values of combinedMap.
combineCitations(backward, forward) ==
    Values(setCitations(setCitations(<< >>, backward), forward))

citationResults(context, backward, forward, combined) ==
    [backward |-> backward,
     forward |-> forward,
     combined |-> combined,
     deduplication |->
         [backwardProviderOverlap |-> context.statistics.backwardProviderOverlap,
          forwardProviderOverlap |-> context.statistics.forwardProviderOverlap,
          directionOverlap |->
              Cardinality(citationKeys(backward) \cap citationKeys(forward))],
     statistics |->
         [totalBackward |-> Len(backward),
          totalForward |-> Len(forward),
          totalCombined |-> Len(combined),
          sources |-> context.statistics.sources]]

\* extractCitationResults
extractCitationResults(context) ==
    citationResults(context,
        Values(context.backwardCitations),
        Values(context.forwardCitations),
        combineCitations(Values(context.backwardCitations), Values(context.forwardCitations)))

\* What searchCitations returns for no inputs.
EmptyCitationResults ==
    [backward |-> << >>,
     forward |-> << >>,
     combined |-> << >>,
     deduplication |->
         [backwardProviderOverlap |-> 0, forwardProviderOverlap |-> 0, directionOverlap |-> 0],
     statistics |->
         [totalBackward |-> 0,
          totalForward |-> 0,
          totalCombined |-> 0,
          sources |-> [openalex |-> [backward |-> 0, forward |-> 0],
                       semanticScholar |-> [backward |-> 0, forward |-> 0]]]]

VARIABLES
    references,         \* the argument of validateSeedReferences
    pc,                 \* where the call is: the request it awaits, or its end
    identifierRefs,     \* context.identifierRefs
    titleRefs,          \* context.titleRefs
    resultMap,          \* context.resultMap
    deduplicationStats, \* context.deduplicationStats
    typeIdx,            \* the identifier type processIdentifierBasedReferences is at
    batchIdx,           \* the batch processIdentifierType / processTitleBasedReferences is at
    candidates,         \* openAlexCandidates of the batch
    matched,            \* refToCandidateMap of processTitleBatch: id -> index in candidates
    pending,            \* the references a fallback has still to try
    enrichIdx,          \* the turn of the loop of enrichOpenAlexTitleResultsWithS2Ids
    response,           \* what validateSeedReferences returned or threw
    http,               \* what the route answered
    events              \* history: the requests sent and how each ended

resolutionVars ==
    <<references, pc, identifierRefs, titleRefs, resultMap, deduplicationStats, typeIdx,
      batchIdx, candidates, matched, pending, enrichIdx, response, http, events>>

VARIABLES
    searchInputs,         \* the inputs of searchCitations
    options,              \* its options: provider and direction
    openAlexCited,        \* what OpenAlex has for the inputs, in each direction
    semanticScholarCited, \* the references and citations Semantic Scholar has
    cpc,                  \* where the call of searchCitations is
    running,              \* the providers whose search has not yet completed
    citationContext,      \* the CitationProcessingContext
    citationResponse,     \* what searchCitations returned
    completed             \* history: the searches in the order they completed

citationVars ==
    <<searchInputs, options, openAlexCited, semanticScholarCited, cpc, running,
      citationContext, citationResponse, completed>>

VARIABLES
    fnName,   \* the function of src/lib/utils.ts or of the processors that is applied
    fnInput,  \* its argument
    fnOutput, \* its result
    fnAgain,  \* the result of a normalizer applied to its own result
    fnStage   \* how many times it has been applied

pureVars == <<fnName, fnInput, fnOutput, fnAgain, fnStage>>

VARIABLES
    scheduled, \* the requests handed to each client's limiter so far
    queued,    \* the requests waiting in each limiter's queue
    inflight,  \* the requests of each client sent and not yet answered
    reading,   \* the requests of each client whose answer's body is being read
    settled    \* the request that settled last: its client, outcome and error

clientVars == <<scheduled, queued, inflight, reading, settled>>

VARIABLES
    forwardPc,     \* where the page loop of each input is: "fetch", "returned"
    page,          \* its page counter
    hasMore,       \* its hasMore flag
    requested,     \* how many pages it has requested from OpenAlex
    resultsLength, \* response.results.length of the page that arrived last
    allCitations,  \* how many citations it has collected
    forwardResult  \* how many citations it returned

forwardVars ==
    <<forwardPc, page, hasMore, requested, resultsLength, allCitations, forwardResult>>

\* What a call of validateSeedReferences leaves alone, and a call of
\* searchCitations.
besidesResolution == <<citationVars, pureVars, clientVars, forwardVars>>

besidesCitations == <<resolutionVars, pureVars, clientVars, forwardVars>>

\* What an application of a pure function leaves alone, a step of a
\* provider client, and a step of the forward page loop.
besidesPure == <<resolutionVars, citationVars, clientVars, forwardVars>>

besidesClients == <<resolutionVars, citationVars, pureVars, forwardVars>>

besidesForward == <<resolutionVars, citationVars, pureVars, clientVars>>

None == [none |-> TRUE]

IdentifierBatches(idRefs, t) == chunkArray(idRefs[IDENTIFIER_TYPES[t]], OpenAlexBatchSize)

TitleBatches(tRefs) == chunkArray(tRefs, TitleBatchSize)

\* processTitleBasedReferences, from batch b on; then extractResults.
TitlePhaseFrom(tRefs, b) ==
    IF b <= Len(TitleBatches(tRefs))
    THEN [pc |-> "ttl_oa", typeIdx |-> 0, batchIdx |-> b]
    ELSE [pc |-> "extract", typeIdx |-> 0, batchIdx |-> 0]

\* processIdentifierBasedReferences, from type t on: the types without
\* references are skipped.
IdentifierPhaseFrom(idRefs, tRefs, t) ==
    LET rest == {i \in t..Len(IDENTIFIER_TYPES) : idRefs[IDENTIFIER_TYPES[i]] # << >>}
    IN  IF rest = {} THEN TitlePhaseFrom(tRefs, 1)
        ELSE [pc |-> "oa_ident",
              typeIdx |-> CHOOSE i \in rest : \A j \in rest : i <= j,
              batchIdx |-> 1]

\* The end of one turn of the loop of processIdentifierType.
AfterIdentifierBatch ==
    IF batchIdx < Len(IdentifierBatches(identifierRefs, typeIdx))
    THEN [pc |-> "oa_ident", typeIdx |-> typeIdx, batchIdx |-> batchIdx + 1]
    ELSE IdentifierPhaseFrom(identifierRefs, titleRefs, typeIdx + 1)

Goto(where) ==
    /\ pc' = where.pc
    /\ typeIdx' = where.typeIdx
    /\ batchIdx' = where.batchIdx

CurrentType == IDENTIFIER_TYPES[typeIdx]

CurrentBatch == IdentifierBatches(identifierRefs, typeIdx)[batchIdx]

CurrentTitleBatch == TitleBatches(titleRefs)[batchIdx]

Event(step, ref, ok) ==
    [step |-> step, type |-> typeIdx, batch |-> batchIdx, ref |-> ref, ok |-> ok]

\* What a request to Semantic Scholar can come to.  rateLimitedFetchS2
\* (src/lib/s2.ts) sets no timer on its request.
SemanticScholarOutcomes == {"ok", "429", "404", "500", "network"}

\* The APIError rateLimitedFetchS2 throws for an outcome other than "ok".
rateLimitedFetchS2Error(outcome) ==
    [code |-> "INTERNAL_SERVER_ERROR", message |-> "Error fetching from Semantic Scholar API"]

(***************************************************************************)
(* validateSeedReferences, one action for each stretch of code between two *)
(* requests.                                                               *)
(***************************************************************************)
\* validateSeedReferences, lines 46-56: the empty request returns at once,
\* any other is grouped.
ValidateStart ==
    /\ pc = "start"
    /\ IF references = << >>
       THEN /\ pc' = "done"
            /\ response' = [ok |-> TRUE, results |-> << >>, deduplication |-> << >>]
            /\ UNCHANGED <<identifierRefs, titleRefs, resultMap, deduplicationStats,
                           typeIdx, batchIdx>>
       ELSE LET context == initializeProcessingContext(references)
            IN  /\ identifierRefs' = context.identifierRefs
                /\ titleRefs' = context.titleRefs
                /\ resultMap' = context.resultMap
                /\ deduplicationStats' = context.deduplicationStats
                /\ Goto(IdentifierPhaseFrom(context.identifierRefs, context.titleRefs, 1))
                /\ UNCHANGED response
    /\ UNCHANGED <<references, candidates, matched, pending, enrichIdx, http, events>>
    /\ UNCHANGED besidesResolution

\* processIdentifierType, step 1: searchOpenAlexByIdentifiers.  Its catch
\* block rethrows, nothing up to validateSeedReferences catches, and
\* validateSeedReferences throws its own error.
OpenAlexByIdentifiers ==
    /\ pc = "oa_ident"
    /\ \E outcome \in OpenAlexOutcomes :
         /\ events' = events \cup {Event("oa_ident", 0, outcome = "ok")}
         /\ IF outcome = "ok"
            THEN LET identifierValues == Map(CurrentBatch, LAMBDA item : item.value)
                     found == transformOpenAlexResults(
                                  OpenAlexFilterResponse(
                                      CurrentType,
                                      buildOpenAlexFilter(CurrentType, identifierValues)))
                 IN  /\ candidates' = found
                     /\ pc' = IF found # << >> THEN "enrich" ELSE "update"
                     /\ UNCHANGED response
            ELSE /\ pc' = "raised"
                 /\ response' =
                      [ok |-> FALSE,
                       error |-> validateSeedReferencesError(
                                     handleOpenAlexError(rateLimitedFetchError(outcome)))]
                 /\ UNCHANGED candidates
    /\ UNCHANGED <<references, identifierRefs, titleRefs, resultMap, deduplicationStats,
                   typeIdx, batchIdx, matched, pending, enrichIdx, http>>
    /\ UNCHANGED besidesResolution

\* processIdentifierType, step 2: enrichWithSemanticScholarIds.
EnrichOpenAlexCandidates ==
    /\ pc = "enrich"
    /\ \E outcome \in SemanticScholarOutcomes :
         LET sends == EnrichmentSendsRequest(candidates, CurrentType)
         IN  /\ sends \/ outcome = "ok"
             /\ candidates' =
                  enrichWithSemanticScholarIds(candidates, CurrentType, outcome = "ok")
             /\ events' = IF sends THEN events \cup {Event("enrich", 0, outcome = "ok")}
                          ELSE events
    /\ pc' = "update"
    /\ UNCHANGED <<references, identifierRefs, titleRefs, resultMap, deduplicationStats,
                   typeIdx, batchIdx, matched, pending, enrichIdx, response, http>>
    /\ UNCHANGED besidesResolution

\* processIdentifierType, steps 3 to 5: the outcomes of the OpenAlex matches,
\* then the references still not found go to the Semantic Scholar fallback.
UpdateWithOpenAlexCandidates ==
    /\ pc = "update"
    /\ LET updated == updateResultsWithCandidates(CurrentBatch, candidates, CurrentType,
                                                  resultMap, FALSE)
           notFoundRefs == notFoundOf(CurrentBatch, updated)
       IN  /\ resultMap' = updated
           /\ IF notFoundRefs # << >>
              THEN /\ pc' = "s2_ident"
                   /\ pending' = notFoundRefs
                   /\ UNCHANGED <<typeIdx, batchIdx>>
              ELSE /\ Goto(AfterIdentifierBatch)
                   /\ pending' = << >>
    /\ events' = events \cup {Event("update", 0, TRUE)}
    /\ UNCHANGED <<references, identifierRefs, titleRefs, deduplicationStats, candidates,
                   matched, enrichIdx, response, http>>
    /\ UNCHANGED besidesResolution

\* processSemanticScholarFallback: the lookup by identifier; when it fails the
\* catch block ends the fallback of this batch.
SemanticScholarFallback ==
    /\ pc = "s2_ident"
    /\ \E outcome \in SemanticScholarOutcomes :
         LET identifierValues == Map(pending, LAMBDA item : item.value)
             sends == SemanticScholarFormattedIds(CurrentType, identifierValues) # << >>
         IN  /\ sends \/ outcome = "ok"
             /\ events' = IF sends THEN events \cup {Event("s2_ident", 0, outcome = "ok")}
                          ELSE events
             /\ IF outcome = "ok"
                THEN LET s2Candidates ==
                           searchSemanticScholarByIdentifiers(CurrentType, identifierValues)
                         updated == updateResultsWithCandidates(
                                        pending, s2Candidates, CurrentType, resultMap, FALSE)
                         stillNotFound ==
                           SelectSeq(notFoundOf(pending, updated),
                                     LAMBDA item : Truthy(item.ref.title))
                     IN  /\ resultMap' = updated
                         /\ IF stillNotFound # << >>
                            THEN /\ pc' = "s2_title"
                                 /\ pending' = stillNotFound
                                 /\ UNCHANGED <<typeIdx, batchIdx>>
                            ELSE /\ Goto(AfterIdentifierBatch)
                                 /\ pending' = << >>
                ELSE /\ Goto(AfterIdentifierBatch)
                     /\ pending' = << >>
                     /\ UNCHANGED resultMap
    /\ UNCHANGED <<references, identifierRefs, titleRefs, deduplicationStats, candidates,
                   matched, enrichIdx, response, http>>
    /\ UNCHANGED besidesResolution

\* The body of the loops of processTitleFallbackForIdentifierRefs and
\* processSemanticScholarTitleFallback for one reference: the result map
\* after searchSemanticScholarByTitle (which returns [] when the request fails).
titleFallbackResult(ref, ok, map) ==
    LET s2Candidates ==
          IF ok THEN transformSemanticScholarResults(
                         SemanticScholarSearchResponse(Trim(ref.title)))
          ELSE << >>
        bestMatch == IF s2Candidates = << >> THEN 0
                     ELSE findBestTitleMatch(ref.title, s2Candidates)
    IN  IF bestMatch = 0 THEN map
        ELSE updateSingleResult(map, ref.id, s2Candidates[bestMatch], TRUE)

\* processTitleFallbackForIdentifierRefs, one turn of its loop.
TitleFallbackForIdentifierRef ==
    /\ pc = "s2_title"
    /\ LET ref == Head(pending).ref
           sends == Trim(ref.title) # << >>
       IN  \E outcome \in SemanticScholarOutcomes :
             /\ sends \/ outcome = "ok"
             /\ events' = IF sends
                          THEN events \cup {Event("s2_title", ref.id, outcome = "ok")}
                          ELSE events
             /\ resultMap' = IF sends THEN titleFallbackResult(ref, outcome = "ok", resultMap)
                             ELSE resultMap
    /\ pending' = Tail(pending)
    /\ IF Tail(pending) = << >> THEN Goto(AfterIdentifierBatch)
       ELSE UNCHANGED <<pc, typeIdx, batchIdx>>
    /\ UNCHANGED <<references, identifierRefs, titleRefs, deduplicationStats, candidates,
                   matched, enrichIdx, response, http>>
    /\ UNCHANGED besidesResolution

RECURSIVE JoinOr(_)
\* titles.join(" OR ")
JoinOr(titles) ==
    IF titles = << >> THEN << >>
    ELSE IF Len(titles) = 1 THEN Head(titles)
         ELSE Head(titles) \o <<" ", "O", "R", " ">> \o JoinOr(Tail(titles))

\* refToCandidateMap of processTitleBatch (lines 826-837): the index of the
\* best match of each reference of the batch that has one.
refToCandidateMap(batch, openAlexCandidates) ==
    LET best(ref) == IF openAlexCandidates = << >> THEN 0
                     ELSE findBestTitleMatch(ref.title, openAlexCandidates)
        ids == {batch[i].id : i \in {j \in 1..Len(batch) : best(batch[j]) # 0}}
    IN  [id \in ids |->
            best(batch[CHOOSE i \in 1..Len(batch) : batch[i].id = id])]

RECURSIVE matchedCandidates(_, _, _)
\* matchedCandidates of processTitleBatch, as indices in openAlexCandidates:
\* each matched candidate once, in the order of the references.
matchedCandidates(batch, map, acc) ==
    IF batch = << >> THEN acc
    ELSE LET id == Head(batch).id
             new == id \in DOMAIN map /\ \A k \in 1..Len(acc) : acc[k] # map[id]
         IN  matchedCandidates(Tail(batch), map, IF new THEN Append(acc, map[id]) ELSE acc)

identifierPriority == <<"doi", "pmid", "pmcid", "mag">>

\* The identifiers enrichOpenAlexTitleResultsWithS2Ids collects for one type
\* (lines 895-918).
identifierGroup(remainingCandidates, identifierType) ==
    SelectSeq(Map(remainingCandidates,
                  LAMBDA c : IF identifierType = "doi" THEN c.doi
                             ELSE getIdentifierValue(c, identifierType)),
              Truthy)

\* processTitleBatch, steps 1 and 2: searchOpenAlexByTitle (which returns []
\* when the request fails) and the matching of the batch's titles.
OpenAlexByTitle ==
    /\ pc = "ttl_oa"
    /\ LET titleQuery == JoinOr(Map(CurrentTitleBatch, LAMBDA ref : ref.title))
           sends == Trim(titleQuery) # << >>
       IN  \E outcome \in OpenAlexOutcomes :
             LET openAlexCandidates ==
                   IF sends /\ outcome = "ok"
                   THEN transformOpenAlexResults(OpenAlexSearchResponse(Trim(titleQuery)))
                   ELSE << >>
                 map == refToCandidateMap(CurrentTitleBatch, openAlexCandidates)
             IN  /\ sends \/ outcome = "ok"
                 /\ events' = IF sends THEN events \cup {Event("ttl_oa", 0, outcome = "ok")}
                              ELSE events
                 /\ candidates' = openAlexCandidates
                 /\ matched' = map
                 /\ pc' = IF DOMAIN map # {} THEN "ttl_enrich" ELSE "ttl_update"
                 /\ enrichIdx' = 1
    /\ UNCHANGED <<references, identifierRefs, titleRefs, resultMap, deduplicationStats,
                   typeIdx, batchIdx, pending, response, http>>
    /\ UNCHANGED besidesResolution

\* enrichOpenAlexTitleResultsWithS2Ids, one turn of its loop over
\* identifierPriority.
EnrichTitleCandidates ==
    /\ pc = "ttl_enrich"
    /\ LET identifierType == identifierPriority[enrichIdx]
           order == matchedCandidates(CurrentTitleBatch, matched, << >>)
           remainingIdx == SelectSeq(order, LAMBDA i : ~Truthy(candidates[i].s2_id))
           remainingCandidates == Map(remainingIdx, LAMBDA i : candidates[i])
           asks == identifierGroup(remainingCandidates, identifierType) # << >>
           sends == asks /\ EnrichmentSendsRequest(remainingCandidates, identifierType)
       IN  IF remainingIdx = << >>
           THEN /\ pc' = "ttl_update"
                /\ UNCHANGED <<candidates, enrichIdx, events>>
           ELSE \E outcome \in SemanticScholarOutcomes :
                  LET enriched == IF asks
                                  THEN enrichWithSemanticScholarIds(
                                           remainingCandidates, identifierType, outcome = "ok")
                                  ELSE remainingCandidates
                  IN  /\ sends \/ outcome = "ok"
                      /\ events' = IF sends
                                   THEN events \cup {Event("ttl_enrich", enrichIdx, outcome = "ok")}
                                   ELSE events
                      /\ candidates' =
                           [i \in 1..Len(candidates) |->
                              IF \E k \in 1..Len(remainingIdx) : remainingIdx[k] = i
                              THEN enriched[CHOOSE k \in 1..Len(remainingIdx) :
                                                remainingIdx[k] = i]
                              ELSE candidates[i]]
                      /\ IF enrichIdx < Len(identifierPriority)
                         THEN enrichIdx' = enrichIdx + 1 /\ pc' = "ttl_enrich"
                         ELSE enrichIdx' = enrichIdx /\ pc' = "ttl_update"
    /\ UNCHANGED <<references, identifierRefs, titleRefs, resultMap, deduplicationStats,
                   typeIdx, batchIdx, matched, pending, response, http>>
    /\ UNCHANGED besidesResolution

RECURSIVE updateMatchedResults(_, _, _, _)
\* processTitleBatch, step 4 (lines 845-850).
updateMatchedResults(batch, map, cands, results) ==
    IF batch = << >> THEN results
    ELSE updateMatchedResults(
             Tail(batch), map, cands,
             IF Head(batch).id \in DOMAIN map
             THEN updateSingleResult(results, Head(batch).id, cands[map[Head(batch).id]], TRUE)
             ELSE results)

\* The end of one turn of the loop of processTitleBasedReferences.
AfterTitleBatch == TitlePhaseFrom(titleRefs, batchIdx + 1)

\* processTitleBatch, steps 4 to 6.
UpdateTitleResults ==
    /\ pc = "ttl_update"
    /\ LET updated == updateMatchedResults(CurrentTitleBatch, matched, candidates, resultMap)
           notFoundRefs ==
             notFoundOf(Map(CurrentTitleBatch, LAMBDA r : [ref |-> r, value |-> Absent]),
                        updated)
       IN  /\ resultMap' = updated
           /\ IF notFoundRefs # << >>
              THEN /\ pc' = "ttl_s2"
                   /\ pending' = notFoundRefs
                   /\ UNCHANGED <<typeIdx, batchIdx>>
              ELSE /\ Goto(AfterTitleBatch)
                   /\ pending' = << >>
    /\ events' = events \cup {Event("ttl_update", 0, TRUE)}
    /\ UNCHANGED <<references, identifierRefs, titleRefs, deduplicationStats, candidates,
                   matched, enrichIdx, response, http>>
    /\ UNCHANGED besidesResolution

\* processSemanticScholarTitleFallback, one turn of its loop.
SemanticScholarTitleFallback ==
    /\ pc = "ttl_s2"
    /\ LET ref == Head(pending).ref
           sends == Trim(ref.title) # << >>
       IN  \E outcome \in SemanticScholarOutcomes :
             /\ sends \/ outcome = "ok"
             /\ events' = IF sends
                          THEN events \cup {Event("ttl_s2", ref.id, outcome = "ok")}
                          ELSE events
             /\ resultMap' = IF sends THEN titleFallbackResult(ref, outcome = "ok", resultMap)
                             ELSE resultMap
    /\ pending' = Tail(pending)
    /\ IF Tail(pending) = << >> THEN Goto(AfterTitleBatch)
       ELSE UNCHANGED <<pc, typeIdx, batchIdx>>
    /\ UNCHANGED <<references, identifierRefs, titleRefs, deduplicationStats, candidates,
                   matched, enrichIdx, response, http>>
    /\ UNCHANGED besidesResolution

\* validateSeedReferences, lines 64-70: extractResults and the return.
ExtractResults ==
    /\ pc = "extract"
    /\ pc' = "done"
    /\ response' = [ok |-> TRUE,
                    results |-> extractResults(resultMap, deduplicationStats).results,
                    deduplication |->
                        extractResults(resultMap, deduplicationStats).deduplication]
    /\ UNCHANGED <<references, identifierRefs, titleRefs, resultMap, deduplicationStats,
                   typeIdx, batchIdx, candidates, matched, pending, enrichIdx, http, events>>
    /\ UNCHANGED besidesResolution

\* POST of src/app/api/validate-seed-references/route.ts: the answer to the
\* caller, for the result returned or for the APIError thrown.
RouteRespond ==
    /\ pc \in {"done", "raised"}
    /\ pc' = "responded"
    /\ http' = IF response.ok
               THEN [status |-> 200, results |-> response.results,
                     deduplication |-> response.deduplication]
               ELSE routeErrorResponse(response.error)
    /\ UNCHANGED <<references, identifierRefs, titleRefs, resultMap, deduplicationStats,
                   typeIdx, batchIdx, candidates, matched, pending, enrichIdx, response,
                   events>>
    /\ UNCHANGED besidesResolution

NumShapes == Len(SeedShapes)

\* The context before initializeProcessingContext.
ResolutionFresh(where) ==
    /\ pc = where
    /\ identifierRefs = EmptyContext.identifierRefs
    /\ titleRefs = << >>
    /\ resultMap = << >>
    /\ deduplicationStats = EmptyContext.deduplicationStats
    /\ typeIdx = 0
    /\ batchIdx = 0
    /\ candidates = << >>
    /\ matched = << >>
    /\ pending = << >>
    /\ enrichIdx = 1
    /\ response = None
    /\ http = None
    /\ events = {}

ResolutionInit ==
    /\ \E n \in 0..MaxRefs : \E shapes \in [1..n -> 1..NumShapes] :
          references = SeedReferences(shapes)
    /\ ResolutionFresh("start")

\* No call of validateSeedReferences.
ResolutionIdle ==
    /\ references = << >>
    /\ ResolutionFresh("idle")

ResolutionNext ==
    \/ ValidateStart
    \/ OpenAlexByIdentifiers
    \/ EnrichOpenAlexCandidates
    \/ UpdateWithOpenAlexCandidates
    \/ SemanticScholarFallback
    \/ TitleFallbackForIdentifierRef
    \/ OpenAlexByTitle
    \/ EnrichTitleCandidates
    \/ UpdateTitleResults
    \/ SemanticScholarTitleFallback
    \/ ExtractResults
    \/ RouteRespond

(***************************************************************************)
(* searchCitations, one action for each stretch of code between the        *)
(* completions of its requests.  The two provider searches run             *)
(* concurrently; each merges its records into the context in one stretch   *)
(* when its own requests have completed.                                   *)
(***************************************************************************)
Selected(provider) ==
    (IF provider \in {"openalex", "both"} THEN {"openalex"} ELSE {})
        \cup (IF provider \in {"semantic_scholar", "both"} THEN {"semantic_scholar"} ELSE {})

\* searchCitations, lines 63-108: the empty request returns at once; for
\* any other the context is made and the selected searches are started.
SearchCitationsStart ==
    /\ cpc = "start"
    /\ IF searchInputs = << >>
       THEN /\ cpc' = "done"
            /\ citationResponse' = [ok |-> TRUE, data |-> EmptyCitationResults]
            /\ UNCHANGED <<citationContext, running>>
       ELSE /\ cpc' = "searching"
            /\ citationContext' = initializeCitationContext(searchInputs, options)
            /\ running' = Selected(options.provider)
            /\ UNCHANGED citationResponse
    /\ UNCHANGED <<searchInputs, options, openAlexCited, semanticScholarCited, completed>>
    /\ UNCHANGED besidesCitations

AfterSearch(provider) ==
    /\ running' = running \ {provider}
    /\ cpc' = IF running \ {provider} = {} THEN "enrich" ELSE "searching"

\* processOpenAlexCitations: the requests of searchOpenAlexCitations
\* complete, all well or all failing, and its records are merged.
OpenAlexCitationsDone ==
    /\ cpc = "searching"
    /\ "openalex" \in running
    /\ \E ok \in BOOLEAN :
          /\ ok \/ SelectSeq(searchInputs, HasOpenAlexId) # << >>
          /\ \E found \in {searchOpenAlexCitations(searchInputs, options.direction,
                                                      openAlexCited, ok)} :
                /\ citationContext' = processOpenAlexCitations(citationContext, found)
                /\ completed' = Append(completed,
                                    [provider |-> "openalex", ok |-> ok, found |-> found])
    /\ AfterSearch("openalex")
    /\ UNCHANGED <<searchInputs, options, openAlexCited, semanticScholarCited,
                   citationResponse>>
    /\ UNCHANGED besidesCitations

\* processSemanticScholarCitations: the requests of
\* searchSemanticScholarCitations complete, one of them failing or none, and
\* its records are merged.
SemanticScholarCitationsDone ==
    /\ cpc = "searching"
    /\ "semantic_scholar" \in running
    /\ \E failed \in 0..Len(SemanticScholarCitationBatches(searchInputs)) :
          \E found \in {searchSemanticScholarCitations(searchInputs, options.direction,
                                                          semanticScholarCited, failed)} :
                /\ citationContext' = processSemanticScholarCitations(citationContext, found)
                /\ completed' = Append(completed,
                                    [provider |-> "semantic_scholar", ok |-> failed = 0,
                                     found |-> found, failedBatch |-> failed])
    /\ AfterSearch("semantic_scholar")
    /\ UNCHANGED <<searchInputs, options, openAlexCited, semanticScholarCited,
                   citationResponse>>
    /\ UNCHANGED besidesCitations

\* searchCitations, lines 110-123: enrichCitationsWithAbstracts, whose
\* requests complete all well or all failing, extractCitationResults and
\* the return.
EnrichAndExtractCitations ==
    /\ cpc = "enrich"
    /\ \E ok \in BOOLEAN :
          /\ ok \/ AbstractsRequested(citationContext)
          /\ \E enriched \in {enrichCitationsWithAbstracts(citationContext, ok)} :
                /\ citationContext' = enriched
                /\ citationResponse' = [ok |-> TRUE, data |-> extractCitationResults(enriched)]
          /\ completed' = Append(completed, [provider |-> "abstracts", ok |-> ok])
    /\ cpc' = "done"
    /\ UNCHANGED <<searchInputs, options, openAlexCited, semanticScholarCited, running>>
    /\ UNCHANGED besidesCitations

\* The requests the model makes: no paper, a paper both providers know, a
\* paper only one of them knows, and two papers only Semantic Scholar knows.
CitationInputShapes ==
    << << >>,
       << [openalex_id |-> <<"W", "9">>, s2_id |-> <<"s", "9">>] >>,
       << [openalex_id |-> <<"W", "9">>, s2_id |-> Absent] >>,
       << [openalex_id |-> Absent, s2_id |-> <<"s", "9">>] >>,
       << [openalex_id |-> Absent, s2_id |-> <<"s", "9">>],
          [openalex_id |-> Absent, s2_id |-> <<"s", "8">>] >> >>

\* Whether the request asks a provider for a direction.
OpenAlexAsked(inputs, opts, d) ==
    /\ opts.provider \in {"openalex", "both"}
    /\ Wants(opts.direction, d)
    /\ SelectSeq(inputs, HasOpenAlexId) # << >>

SemanticScholarAsked(inputs, opts, d) ==
    /\ opts.provider \in {"semantic_scholar", "both"}
    /\ Wants(opts.direction, d)
    /\ SelectSeq(inputs, HasS2Id) # << >>

CitationsFresh(where) ==
    /\ cpc = where
    /\ running = {}
    /\ citationContext = None
    /\ citationResponse = None
    /\ completed = << >>

\* A provider has records only for what the request asks it.  OpenAlex's
\* backward search collects the referenced works of a batch in a Set, so its
\* list has no work twice; the other searches push one list for each paper.
CitationsInit ==
    /\ \E s \in 1..Len(CitationInputShapes) : searchInputs = CitationInputShapes[s]
    /\ options \in [provider : CitationProviders, direction : CitationDirections]
    /\ \E b \in CitedLists(Len(OpenAlexCitedWorks)) :
       \E f \in ListsFor(SelectSeq(searchInputs, HasOpenAlexId), Len(OpenAlexCitedWorks)) :
          /\ b = << >> \/ OpenAlexAsked(searchInputs, options, "backward")
          /\ f = << >> \/ OpenAlexAsked(searchInputs, options, "forward")
          /\ openAlexCited = [backward |-> Pick(OpenAlexCitedWorks, b),
                              forward |-> Pick(OpenAlexCitedWorks, f)]
    /\ \E b \in ListsFor(SelectSeq(searchInputs, HasS2Id), Len(SemanticScholarCitedPapers)) :
       \E f \in ListsFor(SelectSeq(searchInputs, HasS2Id), Len(SemanticScholarCitedPapers)) :
          /\ b = << >> \/ SemanticScholarAsked(searchInputs, options, "backward")
          /\ f = << >> \/ SemanticScholarAsked(searchInputs, options, "forward")
          /\ semanticScholarCited = [references |-> Pick(SemanticScholarCitedPapers, b),
                                     citations |-> Pick(SemanticScholarCitedPapers, f)]
    /\ CitationsFresh("start")

\* No call of searchCitations.
CitationsIdle ==
    /\ searchInputs = << >>
    /\ options = [provider |-> "both", direction |-> "both"]
    /\ openAlexCited = [backward |-> << >>, forward |-> << >>]
    /\ semanticScholarCited = [references |-> << >>, citations |-> << >>]
    /\ CitationsFresh("idle")

CitationsNext ==
    \/ SearchCitationsStart
    \/ OpenAlexCitationsDone
    \/ SemanticScholarCitationsDone
    \/ EnrichAndExtractCitations

\* No function under test.
PureIdle ==
    /\ fnName = "none"
    /\ fnInput = << >>
    /\ fnOutput = << >>
    /\ fnAgain = << >>
    /\ fnStage = 0

Clients == {"openalex", "semantic_scholar"}

\* The two limiters with nothing scheduled.
ClientsIdle ==
    /\ scheduled = [c \in Clients |-> 0]
    /\ queued = [c \in Clients |-> 0]
    /\ inflight = [c \in Clients |-> 0]
    /\ reading = [c \in Clients |-> 0]
    /\ settled = None

\* The inputs of searchOpenAlexForwardCitations, each with its own page loop.
MaxForwardInputs == 2

ForwardInputs == 1..MaxForwardInputs

\* No forward search under way.
ForwardIdle ==
    /\ forwardPc = [i \in ForwardInputs |-> "none"]
    /\ page = [i \in ForwardInputs |-> 1]
    /\ hasMore = [i \in ForwardInputs |-> TRUE]
    /\ requested = [i \in ForwardInputs |-> 0]
    /\ resultsLength = [i \in ForwardInputs |-> 0]
    /\ allCitations = [i \in ForwardInputs |-> 0]
    /\ forwardResult = [i \in ForwardInputs |-> 0]

vars == <<resolutionVars, citationVars, pureVars, clientVars, forwardVars>>

\* A call of validateSeedReferences.
Init == ResolutionInit /\ CitationsIdle /\ PureIdle /\ ClientsIdle /\ ForwardIdle

Next == ResolutionNext

Spec == Init /\ [][Next]_vars

\* A call of searchCitations.
InitCitations ==
    ResolutionIdle /\ CitationsInit /\ PureIdle /\ ClientsIdle /\ ForwardIdle

NextCitations == CitationsNext

SpecCitations == InitCitations /\ [][NextCitations]_vars

(***************************************************************************)
(* The normalizers and the key function on their own: a call applies one   *)
(* of them to an argument, and a normalizer once more to its own result.   *)
(***************************************************************************)
MaxTokens == 3

\* The pieces identifier and title strings are written with: labels, quotes,
\* blanks, URL prefixes and values.
InputTokens ==
    << DoiKey, <<"\"">>, <<" ">>, DoiPrefix \o <<"X">>, OpenAlexHost, <<"W", "1">>,
       <<"P", "M", "I", "D", ":">>, <<"P", "M", "C">>, <<"1", "2">>, DoiHost >>

InputStrings ==
    {ConcatAll(Pick(InputTokens, choice)) :
        choice \in UNION {[1..n -> 1..Len(InputTokens)] : n \in 0..MaxTokens}}

Normalizers ==
    {"normalizeDoi", "normalizePmid", "normalizePmcid", "normalizeOpenAlexId",
     "normalizeMagId", "normalizeText"}

applyNormalizer(name, value) ==
    CASE name = "normalizeDoi" -> normalizeDoi(value)
      [] name = "normalizePmid" -> normalizePmid(value)
      [] name = "normalizePmcid" -> normalizePmcid(value)
      [] name = "normalizeOpenAlexId" -> normalizeOpenAlexId(value)
      [] name = "normalizeMagId" -> normalizeMagId(value)
      [] name = "normalizeText" -> normalizeText(value)

\* The Citation records generateCitationKey is given: every combination of
\* the fields it reads present or absent, the DOI in two spellings.
KeyInputs ==
    [doi : {Absent, DoiPrefix \o <<"a">>, DoiPrefix \o <<"A">>},
     pmid : {Absent, <<"1", "2">>},
     openalex_id : {Absent, <<"w", "1">>},
     s2_id : {Absent, <<"s", "1">>},
     title : {<<"A", " ", "b">>, <<"C", "d">>},
     abstract : {Absent},
     journal : {Absent}]

PureFresh(name, value) ==
    /\ fnName = name
    /\ fnInput = value
    /\ fnOutput = << >>
    /\ fnAgain = << >>
    /\ fnStage = 0

MaxCandidates == 3

\* Titles of inputs and of candidates: equal ones, ones equal once
\* normalized, ones that differ in a character, and ones without a letter
\* or digit.
TitleInputs ==
    {<<"A", " ", "b">>, <<"a", "-", "B">>, <<"A", "c">>, <<"a", "b", "1">>,
     <<"-", "-">>, <<"?">>}

TitleCandidates ==
    UNION {[1..n -> [title : TitleInputs]] : n \in 0..MaxCandidates}

PureInit ==
    \/ \E name \in Normalizers, value \in InputStrings : PureFresh(name, value)
    \/ \E citation \in KeyInputs : PureFresh("generateCitationKey", citation)
    \/ \E target \in TitleInputs, list \in TitleCandidates :
        PureFresh("findBestTitleMatch", [targetTitle |-> target, candidates |-> list])

Normalize ==
    /\ fnName \in Normalizers
    /\ fnStage = 0
    /\ fnOutput' = applyNormalizer(fnName, fnInput)
    /\ fnStage' = 1
    /\ UNCHANGED <<fnName, fnInput, fnAgain>>
    /\ UNCHANGED besidesPure

NormalizeAgain ==
    /\ fnName \in Normalizers
    /\ fnStage = 1
    /\ fnAgain' = applyNormalizer(fnName, fnOutput)
    /\ fnStage' = 2
    /\ UNCHANGED <<fnName, fnInput, fnOutput>>
    /\ UNCHANGED besidesPure

GenerateKey ==
    /\ fnName = "generateCitationKey"
    /\ fnStage = 0
    /\ fnOutput' = generateCitationKey(fnInput)
    /\ fnStage' = 1
    /\ UNCHANGED <<fnName, fnInput, fnAgain>>
    /\ UNCHANGED besidesPure

FindBestTitleMatch ==
    /\ fnName = "findBestTitleMatch"
    /\ fnStage = 0
    /\ fnOutput' = findBestTitleMatch(fnInput.targetTitle, fnInput.candidates)
    /\ fnStage' = 1
    /\ UNCHANGED <<fnName, fnInput, fnAgain>>
    /\ UNCHANGED besidesPure

InitPure == ResolutionIdle /\ CitationsIdle /\ PureInit /\ ClientsIdle /\ ForwardIdle

NextPure == Normalize \/ NormalizeAgain \/ GenerateKey \/ FindBestTitleMatch

SpecPure == InitPure /\ [][NextPure]_vars

(***************************************************************************)
(* The two provider clients: rateLimitedFetch of src/unnamed/part_005 and  *)
(* rateLimitedFetchS2 of src/lib/s2.ts, each behind its Bottleneck         *)
(* limiter.  Every caller in the process shares the two limiters, so the   *)
(* requests of all running calls are counted together.  Time is not        *)
(* modelled: minTime only delays the start of a queued request.            *)
(***************************************************************************)
MaxOpenAlexRequests == 10

MaxSemanticScholarRequests == 2

OpenAlexMaxConcurrent == 9

SemanticScholarMaxConcurrent == 1

MaxRequests ==
    [openalex |-> MaxOpenAlexRequests, semantic_scholar |-> MaxSemanticScholarRequests]

\* The maxConcurrent option of each limiter.
maxConcurrent ==
    [openalex |-> OpenAlexMaxConcurrent, semantic_scholar |-> SemanticScholarMaxConcurrent]

\* The jobs of a limiter that have started and not settled.
Running(c) == inflight[c] + reading[c]

Settle(c, outcome, error) ==
    settled' = [client |-> c, outcome |-> outcome, error |-> error]

\* A caller calls rateLimitedFetch or rateLimitedFetchS2: the limiter queues
\* the job.
Schedule(c) ==
    /\ scheduled[c] < MaxRequests[c]
    /\ scheduled' = [scheduled EXCEPT ![c] = @ + 1]
    /\ queued' = [queued EXCEPT ![c] = @ + 1]
    /\ UNCHANGED <<inflight, reading, settled>>
    /\ UNCHANGED besidesClients

\* Start, but with no look at the jobs that are running.
StartUnlimited(c) ==
    /\ queued[c] > 0
    /\ queued' = [queued EXCEPT ![c] = @ - 1]
    /\ inflight' = [inflight EXCEPT ![c] = @ + 1]
    /\ UNCHANGED <<scheduled, reading, settled>>
    /\ UNCHANGED besidesClients

\* The limiter starts a queued job when fewer than maxConcurrent are running:
\* the job calls fetch.
Start(c) ==
    /\ queued[c] > 0
    /\ Running(c) < maxConcurrent[c]
    /\ queued' = [queued EXCEPT ![c] = @ - 1]
    /\ inflight' = [inflight EXCEPT ![c] = @ + 1]
    /\ UNCHANGED <<scheduled, reading, settled>>
    /\ UNCHANGED besidesClients

\* rateLimitedFetch, lines 19-67 and 88-101: fetch resolves or rejects.  The
\* timer is cleared, an error status throws its APIError, an ok answer goes
\* on to response.text().
OpenAlexResponds ==
    /\ inflight.openalex > 0
    /\ inflight' = [inflight EXCEPT !.openalex = @ - 1]
    /\ \/ /\ reading' = [reading EXCEPT !.openalex = @ + 1]
          /\ UNCHANGED settled
       \/ /\ \E outcome \in {"429", "404", "500", "400", "network"} :
                Settle("openalex", outcome, rateLimitedFetchError(outcome))
          /\ UNCHANGED reading
    /\ UNCHANGED <<scheduled, queued>>
    /\ UNCHANGED besidesClients

\* rateLimitedFetch, lines 17 and 92-98: the 30 s timer fires while fetch is
\* pending, fetch rejects with an AbortError.
OpenAlexTimerFires ==
    /\ inflight.openalex > 0
    /\ inflight' = [inflight EXCEPT !.openalex = @ - 1]
    /\ Settle("openalex", "timeout", rateLimitedFetchError("timeout"))
    /\ UNCHANGED <<scheduled, queued, reading>>
    /\ UNCHANGED besidesClients

\* rateLimitedFetch, lines 69-82 and 88-101: response.text() resolves or
\* rejects, JSON.parse returns or throws.
OpenAlexBodyRead ==
    /\ reading.openalex > 0
    /\ reading' = [reading EXCEPT !.openalex = @ - 1]
    /\ \/ Settle("openalex", "ok", Null)
       \/ \E outcome \in {"badjson", "network"} :
              Settle("openalex", outcome, rateLimitedFetchError(outcome))
    /\ UNCHANGED <<scheduled, queued, inflight>>
    /\ UNCHANGED besidesClients

\* rateLimitedFetchS2, lines 31 and 43-50: fetch resolves, and the job goes on
\* to response.json(), or rejects.
SemanticScholarResponds ==
    /\ inflight.semantic_scholar > 0
    /\ inflight' = [inflight EXCEPT !.semantic_scholar = @ - 1]
    /\ \/ /\ reading' = [reading EXCEPT !.semantic_scholar = @ + 1]
          /\ UNCHANGED settled
       \/ /\ Settle("semantic_scholar", "network", rateLimitedFetchS2Error("network"))
          /\ UNCHANGED reading
    /\ UNCHANGED <<scheduled, queued>>
    /\ UNCHANGED besidesClients

\* rateLimitedFetchS2, lines 33-50: response.json() resolves or rejects; the
\* answer of an ok status is returned, anything else is thrown and wrapped.
\* The status came with the headers; nothing looks at it before this step.
SemanticScholarBodyRead ==
    /\ reading.semantic_scholar > 0
    /\ reading' = [reading EXCEPT !.semantic_scholar = @ - 1]
    /\ \/ Settle("semantic_scholar", "ok", Null)
       \/ \E outcome \in SemanticScholarOutcomes \ {"ok"} :
              Settle("semantic_scholar", outcome, rateLimitedFetchS2Error(outcome))
    /\ UNCHANGED <<scheduled, queued, inflight>>
    /\ UNCHANGED besidesClients

InitClients ==
    ResolutionIdle /\ CitationsIdle /\ PureIdle /\ ClientsIdle /\ ForwardIdle

NextClients ==
    \/ \E c \in Clients : Schedule(c)
    \/ \E c \in Clients : Start(c)
    \/ OpenAlexResponds
    \/ OpenAlexTimerFires
    \/ OpenAlexBodyRead
    \/ SemanticScholarResponds
    \/ SemanticScholarBodyRead

SpecClients == InitClients /\ [][NextClients]_vars

\* The limiter starts a queued job once a slot is free, and a timer that was
\* set and not cleared fires.  Nothing makes a provider answer.
SpecClientsFair ==
    /\ SpecClients
    /\ \A c \in Clients : WF_vars(Start(c))
    /\ WF_vars(OpenAlexTimerFires)

(***************************************************************************)
(* searchOpenAlexForwardCitations: one page loop per input, all started    *)
(* together.  A loop requests a page, waits for it, and on its arrival     *)
(* either requests the next page or returns.  A page is any number of      *)
(* results up to the page size with any total count.                       *)
(***************************************************************************)
ForwardPerPage == 100

ForwardPageLimit == 50

PageLengths == {0, ForwardPerPage - 1, ForwardPerPage}

MetaCounts ==
    {0, ForwardPerPage + 50, ForwardPerPage * ForwardPageLimit,
     ForwardPerPage * ForwardPageLimit + 1000}

ForwardHasMoreByCount(len, count, pg) == count > pg * ForwardPerPage

\* hasMore after the page pg arrived with len results of count in total.
ForwardHasMore(len, count, pg) ==
    len = ForwardPerPage /\ count > pg * ForwardPerPage

\* Whether the loop goes round again once page was incremented to pg:
\* the break on the page limit, then the loop's condition.
ForwardContinues(more, pg) == ~(pg > ForwardPageLimit) /\ more

\* The loops up to their first await: every input has requested page 1.
ForwardInit ==
    /\ forwardPc = [i \in ForwardInputs |-> "fetch"]
    /\ page = [i \in ForwardInputs |-> 1]
    /\ hasMore = [i \in ForwardInputs |-> TRUE]
    /\ requested = [i \in ForwardInputs |-> 1]
    /\ resultsLength = [i \in ForwardInputs |-> 0]
    /\ allCitations = [i \in ForwardInputs |-> 0]
    /\ forwardResult = [i \in ForwardInputs |-> 0]

\* The page an input waits for arrives: its citations are collected, hasMore
\* and page are updated, and the loop requests the next page or returns.
ForwardPageArrives(i) ==
    /\ forwardPc[i] = "fetch"
    /\ \E len \in PageLengths, count \in MetaCounts :
        \E more \in {ForwardHasMore(len, count, page[i])} :
            /\ resultsLength' = [resultsLength EXCEPT ![i] = len]
            /\ allCitations' = [allCitations EXCEPT ![i] = @ + len]
            /\ hasMore' = [hasMore EXCEPT ![i] = more]
            /\ page' = [page EXCEPT ![i] = @ + 1]
            /\ IF ForwardContinues(more, page[i] + 1)
               THEN /\ requested' = [requested EXCEPT ![i] = @ + 1]
                    /\ UNCHANGED <<forwardPc, forwardResult>>
               ELSE /\ forwardPc' = [forwardPc EXCEPT ![i] = "returned"]
                    /\ forwardResult' = [forwardResult EXCEPT ![i] = allCitations[i] + len]
                    /\ UNCHANGED requested
    /\ UNCHANGED besidesForward

\* The request of an input fails: the input's catch returns no citation.
ForwardPageFails(i) ==
    /\ forwardPc[i] = "fetch"
    /\ forwardPc' = [forwardPc EXCEPT ![i] = "returned"]
    /\ forwardResult' = [forwardResult EXCEPT ![i] = 0]
    /\ UNCHANGED <<page, hasMore, requested, resultsLength, allCitations>>
    /\ UNCHANGED besidesForward

InitForward ==
    ResolutionIdle /\ CitationsIdle /\ PureIdle /\ ClientsIdle /\ ForwardInit

NextForward ==
    \/ \E i \in ForwardInputs : ForwardPageArrives(i)
    \/ \E i \in ForwardInputs : ForwardPageFails(i)

SpecForward == InitForward /\ [][NextForward]_vars

\* rateLimitedFetch settles every request of OpenAlex, with the response or
\* with an error: its limiter starts the job and its timer aborts the fetch.
SpecForwardFair ==
    /\ SpecForward
    /\ \A i \in ForwardInputs :
        WF_vars(ForwardPageArrives(i) \/ ForwardPageFails(i))




(***************************************************************************)
(* The properties of the resolution engine.                                *)
(***************************************************************************)
RefIndices == 1..Len(references)

InputIds == {references[i].id : i \in RefIndices}

ResultIds(results) == {results[i].id : i \in 1..Len(results)}

\* The identifier type grouping files a reference under: the first of
\* IDENTIFIER_TYPES the reference has a value for, 0 when it has none.
FirstType(ref) ==
    LET present == {i \in 1..Len(IDENTIFIER_TYPES) :
                       Truthy(RefField(ref, IDENTIFIER_TYPES[i]))}
    IN  IF present = {} THEN 0 ELSE CHOOSE i \in present : \A j \in present : i <= j

NormalizedValue(ref) ==
    normalizeIdentifier(IDENTIFIER_TYPES[FirstType(ref)],
                        RefField(ref, IDENTIFIER_TYPES[FirstType(ref)]))

\* Input i repeats the normalized identifier of an earlier input of its type.
IsDuplicate(i) ==
    /\ FirstType(references[i]) # 0
    /\ \E j \in 1..(i - 1) :
          /\ FirstType(references[j]) = FirstType(references[i])
          /\ NormalizedValue(references[j]) = NormalizedValue(references[i])

Grouped == pc # "start"

Returned == pc \in {"done", "responded"} /\ response.ok

\* C1: validateSeedReferences returns exactly one outcome for each input id:
\* the ids of results are the ids of the inputs, duplicates and inputs with
\* neither identifier nor title included.
C1_OneOutcomePerInput ==
    Returned =>
        /\ ResultIds(response.results) = InputIds
        /\ Len(response.results) = Len(references)

\* A request is answered with fewer outcomes than it has inputs.
C1_InputWithoutOutcome ==
    /\ Returned
    /\ \E i \in RefIndices : references[i].id \notin ResultIds(response.results)

\* C2: an input that repeats the normalized identifier of an input already
\* queued for its type gets, at grouping, the outcome found = false,
\* searched_by_title = false, data = null, is counted as a duplicate of the
\* type, and that outcome is in the final results.
C2_DuplicateHasEmptyOutcome ==
    Grouped =>
        \A i \in RefIndices :
            IsDuplicate(i) =>
                /\ deduplicationStats[IDENTIFIER_TYPES[FirstType(references[i])]] >= 1
                /\ MapHas(resultMap, references[i].id)
                /\ MapGet(resultMap, references[i].id)
                       = createEmptyResult(references[i].id, FALSE)
                /\ Returned =>
                       /\ MapHas(response.results, references[i].id)
                       /\ MapGet(response.results, references[i].id)
                              = createEmptyResult(references[i].id, FALSE)

\* A duplicate is counted and has no entry in the result map.
C2_DuplicateWithoutOutcome ==
    /\ Grouped
    /\ \E i \in RefIndices :
          /\ IsDuplicate(i)
          /\ deduplicationStats[IDENTIFIER_TYPES[FirstType(references[i])]] >= 1
          /\ ~MapHas(resultMap, references[i].id)

\* The inputs that have a DOI, and the values their DOIs normalize to.
DoiInputs == {i \in RefIndices : Truthy(references[i].doi)}

DoiValues == {normalizeDoi(references[i].doi) : i \in DoiInputs}

DoiGroup(v) == {i \in DoiInputs : normalizeDoi(references[i].doi) = v}

DoiDuplicates == Cardinality(DoiInputs) - Cardinality(DoiValues)

\* C3: of the N inputs whose DOIs normalize to one value, grouping queues
\* exactly one in the DOI queue, the first in input order, and the N - 1
\* others are counted: deduplication.doi is reported as their number and is
\* left out when there are none.
C3_OneQueuedPerDoi ==
    Grouped =>
        /\ Len(identifierRefs["doi"]) = Cardinality(DoiValues)
        /\ \A v \in DoiValues :
              \E k \in 1..Len(identifierRefs["doi"]) :
                  /\ identifierRefs["doi"][k].value = v
                  /\ identifierRefs["doi"][k].ref.id \in
                         {references[i].id : i \in DoiGroup(v)}
                  /\ \A i \in DoiGroup(v) : identifierRefs["doi"][k].ref.id <= references[i].id
        /\ deduplicationStats["doi"] = DoiDuplicates
        /\ Returned =>
              IF DoiDuplicates = 0 THEN "doi" \notin DOMAIN response.deduplication
              ELSE /\ "doi" \in DOMAIN response.deduplication
                   /\ response.deduplication["doi"] = DoiDuplicates

\* Every input of a returned request has the same normalized DOI, written in
\* more than one way, and all but the first are reported as duplicates.
C3_AllInputsOneDoi ==
    /\ Returned
    /\ Len(references) = MaxRefs
    /\ DoiInputs = RefIndices
    /\ Cardinality(DoiValues) = 1
    /\ \E i, j \in RefIndices : references[i].doi # references[j].doi
    /\ Len(identifierRefs["doi"]) = 1
    /\ response.deduplication["doi"] = MaxRefs - 1

FoundIffData(outcome) == outcome.found <=> (outcome.data # Null)

\* C4: in every state of a resolution and in the results it returns, an
\* outcome has found = true exactly when its data is not null.
C4_FoundIffData ==
    /\ \A k \in 1..Len(resultMap) : FoundIffData(resultMap[k])
    /\ Returned => \A k \in 1..Len(response.results) : FoundIffData(response.results[k])
    /\ (pc = "responded" /\ response.ok) =>
           \A k \in 1..Len(http.results) : FoundIffData(http.results[k])

\* A request is answered with an outcome that was found and one that was not.
C4_FoundAndNotFound ==
    /\ pc = "responded"
    /\ response.ok
    /\ \E k \in 1..Len(http.results) : http.results[k].found
    /\ \E k \in 1..Len(http.results) : ~http.results[k].found

\* C5: a provider request that fails during identifier-based or title-only
\* resolution, OpenAlex's lookup by identifier included, does not make
\* validateSeedReferences raise: the remaining batches and types are
\* processed and a result is returned.
C5_FailureNeverRaises ==
    (\E e \in events : ~e.ok) => pc # "raised" /\ (pc = "responded" => response.ok)

\* OpenAlex's lookup by identifier fails and validateSeedReferences raises
\* with batches left unprocessed.
C5_LookupFailureRaises ==
    /\ pc = "raised"
    /\ \E e \in events : e.step = "oa_ident" /\ ~e.ok

\* The candidates OpenAlex's lookup gives for batch b of type t.
OpenAlexCandidatesOf(t, b) ==
    transformOpenAlexResults(
        OpenAlexFilterResponse(
            IDENTIFIER_TYPES[t],
            buildOpenAlexFilter(IDENTIFIER_TYPES[t],
                                Map(IdentifierBatches(identifierRefs, t)[b],
                                    LAMBDA item : item.value))))

Happened(step, t, b, ok) ==
    \E e \in events : e.step = step /\ e.type = t /\ e.batch = b /\ e.ok = ok

\* The inputs of batch b of type t that OpenAlex matched have the outcome made
\* of OpenAlex's candidate in the map.
MatchedKeepOpenAlexData(t, b, map) ==
    \A k \in 1..Len(IdentifierBatches(identifierRefs, t)[b]) :
        \A hits \in {candidatesWithKey(OpenAlexCandidatesOf(t, b), IDENTIFIER_TYPES[t],
                                       IdentifierBatches(identifierRefs, t)[b][k].value)} :
            hits # << >> =>
                \A id \in {IdentifierBatches(identifierRefs, t)[b][k].ref.id} :
                    /\ MapHas(map, id)
                    /\ MapGet(map, id) = transformCandidateToResult(id, Last(hits), FALSE)

AllIdentifierBatches ==
    {tb \in (1..Len(IDENTIFIER_TYPES)) \X (1..MaxRefs) :
        tb[2] <= Len(IdentifierBatches(identifierRefs, tb[1]))}

\* C6: when Semantic Scholar fails while the OpenAlex candidates of a batch
\* are enriched, the batch goes on to its update, every input of the batch
\* OpenAlex matched has found = true with OpenAlex's data from then on and in
\* the results returned, the failure does not make the call raise, and a call
\* that returns has processed every batch of every type.
C6_EnrichmentFailureKeepsMatches ==
    /\ \A tb \in AllIdentifierBatches :
          Happened("enrich", tb[1], tb[2], FALSE) =>
              IF Happened("update", tb[1], tb[2], TRUE)
              THEN /\ MatchedKeepOpenAlexData(tb[1], tb[2], resultMap)
                   /\ Returned => MatchedKeepOpenAlexData(tb[1], tb[2], response.results)
              ELSE pc = "update" /\ typeIdx = tb[1] /\ batchIdx = tb[2]
    /\ (\A e \in events : e.step = "oa_ident" => e.ok) => pc # "raised"
    /\ Returned /\ references # << >> =>
          \A tb \in AllIdentifierBatches : Happened("update", tb[1], tb[2], TRUE)

\* The enrichment of the first DOI batch failed, and the request is answered
\* with that batch's input found with OpenAlex's data and a later batch
\* processed.
C6_FailedEnrichmentThenMore ==
    /\ pc = "responded"
    /\ response.ok
    /\ Happened("enrich", 1, 1, FALSE)
    /\ \E tb \in AllIdentifierBatches :
          tb # <<1, 1>> /\ Happened("update", tb[1], tb[2], TRUE)
    /\ \E k \in 1..Len(http.results) :
          /\ http.results[k].found
          /\ Truthy(http.results[k].data.openalex_id)
          /\ ~Truthy(http.results[k].data.s2_id)

\* C8: a provider failure that propagates out of validateSeedReferences
\* reaches the caller with the kind and the message of the failure it began
\* as.
C8_CallerSeesOriginalFailure ==
    (pc = "responded" /\ ~response.ok) =>
        /\ http.code = response.error.cause.code
        /\ http.error = response.error.cause.message
        /\ http.status = getStatusCodeFromErrorCode(response.error.cause.code)

\* OpenAlex answers 429 and the caller is told of an internal server error.
C8_RateLimitSeenAsInternalError ==
    /\ pc = "responded"
    /\ ~response.ok
    /\ response.error.cause.code = "TOO_MANY_REQUESTS"
    /\ http.code = "INTERNAL_SERVER_ERROR"
    /\ http.status = 500

\* The free-text title search ran for input i: it was queued by title alone,
\* or the Semantic Scholar title fallback of its identifier batch sent a
\* search for it.
TitleSearched(i) ==
    \/ FirstType(references[i]) = 0 /\ Truthy(references[i].title)
    \/ \E e \in events : e.step = "s2_title" /\ e.ref = references[i].id

SearchedByTitleAsResolved(i, outcome) ==
    /\ TitleSearched(i) => outcome.searched_by_title
    /\ (FirstType(references[i]) # 0 /\ outcome.found /\ ~TitleSearched(i))
           => ~outcome.searched_by_title

\* C15: the outcome of an input whose resolution fell through to the title
\* search has searched_by_title = true, whether or not the search found a
\* match; the outcome of an input resolved by identifier has it false.
C15_SearchedByTitle ==
    Returned =>
        \A i \in RefIndices : \A k \in 1..Len(response.results) :
            response.results[k].id = references[i].id
                => SearchedByTitleAsResolved(i, response.results[k])

\* The title fallback ran for an input queued by identifier and found nothing:
\* the outcome returned says searched_by_title = false.
C15_FallbackWithoutMatch ==
    /\ Returned
    /\ \E i \in RefIndices : \E k \in 1..Len(response.results) :
          /\ response.results[k].id = references[i].id
          /\ FirstType(references[i]) # 0
          /\ \E e \in events : e.step = "s2_title" /\ e.ref = references[i].id /\ e.ok
          /\ ~response.results[k].found
          /\ ~response.results[k].searched_by_title

\* But for the title fallback that finds nothing, searched_by_title is as
\* stated.
SearchedByTitleWhenMatched ==
    Returned =>
        \A i \in RefIndices : \A k \in 1..Len(response.results) :
            (response.results[k].id = references[i].id
             /\ (response.results[k].found \/ FirstType(references[i]) = 0))
                => SearchedByTitleAsResolved(i, response.results[k])

\* The title fallback found a match for an input queued by identifier.
FallbackWithMatch ==
    /\ Returned
    /\ \E i \in RefIndices : \E k \in 1..Len(response.results) :
          /\ response.results[k].id = references[i].id
          /\ FirstType(references[i]) # 0
          /\ \E e \in events : e.step = "s2_title" /\ e.ref = references[i].id
          /\ response.results[k].found
          /\ response.results[k].searched_by_title


\* The Semantic Scholar id a lookup by one identifier type of the candidate
\* gives: Absent when the candidate has no such identifier or Semantic
\* Scholar knows no paper by it.
S2IdBy(candidate, identifierType) ==
    enrichWithSemanticScholarIds(<<[candidate EXCEPT !.s2_id = Absent]>>,
                                 identifierType, TRUE)[1].s2_id

\* The types of identifierPriority by which Semantic Scholar gives an id.
SucceedingTypes(candidate) ==
    {i \in 1..Len(identifierPriority) : Truthy(S2IdBy(candidate, identifierPriority[i]))}

\* The candidate has the id of the first type of the priority order that
\* gives one, and none when no type does.
EnrichedInPriorityOrder(candidate) ==
    IF SucceedingTypes(candidate) = {} THEN ~Truthy(candidate.s2_id)
    ELSE candidate.s2_id
             = S2IdBy(candidate,
                      identifierPriority[CHOOSE i \in SucceedingTypes(candidate) :
                                             \A j \in SucceedingTypes(candidate) : i <= j])

\* The candidates of the current identifier batch have been enriched and no
\* request of the enrichment failed.
IdentifierBatchEnriched ==
    /\ pc = "update"
    /\ ~Happened("enrich", typeIdx, batchIdx, FALSE)

\* C21: after the enrichment of an identifier batch whose requests went well,
\* every candidate OpenAlex found has the Semantic Scholar id of the first of
\* its identifiers, in the order DOI, PMID, PMCID, MAG, by which Semantic
\* Scholar knows it, whatever the type of the queue.
C21_EnrichedByPriorityOrder ==
    IdentifierBatchEnriched =>
        \A k \in 1..Len(candidates) : EnrichedInPriorityOrder(candidates[k])

\* The candidate of the openalex queue has a DOI Semantic Scholar knows and
\* leaves the enrichment without a Semantic Scholar id.
C21_OpenAlexQueueNotEnriched ==
    /\ IdentifierBatchEnriched
    /\ CurrentType = "openalex"
    /\ \E k \in 1..Len(candidates) :
          /\ Truthy(S2IdBy(candidates[k], "doi"))
          /\ ~Truthy(candidates[k].s2_id)

\* In the queues of the other types the candidates are enriched as stated.
OtherQueuesEnriched ==
    (IdentifierBatchEnriched /\ CurrentType # "openalex")
        => \A k \in 1..Len(candidates) : EnrichedInPriorityOrder(candidates[k])


\* Input i was queued under an identifier and has a title that is not blank.
QueuedWithTitle(i) ==
    /\ FirstType(references[i]) # 0
    /\ ~IsDuplicate(i)
    /\ Trim(references[i].title) # << >>

\* The outcome returned for input i shows that neither lookup by identifier
\* found it.
NotFoundByIdentifier(i) ==
    \E k \in 1..Len(response.results) :
        /\ response.results[k].id = references[i].id
        /\ ~response.results[k].found \/ response.results[k].searched_by_title

TitleSearchSent(i) ==
    \E e \in events : e.step = "s2_title" /\ e.ref = references[i].id

\* C22: every input queued under an identifier that has a title and that
\* neither OpenAlex nor Semantic Scholar found by the identifier has been
\* submitted to the Semantic Scholar title search when the resolution
\* returns, whether the Semantic Scholar lookup found nothing or failed.
C22_TitleFallbackAlwaysTried ==
    Returned =>
        \A i \in RefIndices :
            (QueuedWithTitle(i) /\ NotFoundByIdentifier(i)) => TitleSearchSent(i)

\* The Semantic Scholar lookup by identifier failed for a batch with an input
\* that has a title, and no title search was sent for it.
C22_FailedLookupSkipsTitleSearch ==
    /\ Returned
    /\ \E i \in RefIndices :
          /\ QueuedWithTitle(i)
          /\ NotFoundByIdentifier(i)
          /\ ~TitleSearchSent(i)
          /\ \E e \in events : e.step = "s2_ident" /\ ~e.ok

\* When no Semantic Scholar lookup by identifier fails, the title search is
\* sent as stated.
TitleFallbackTriedAfterNoMatch ==
    (Returned /\ \A e \in events : e.step = "s2_ident" => e.ok) =>
        \A i \in RefIndices :
            (QueuedWithTitle(i) /\ NotFoundByIdentifier(i)) => TitleSearchSent(i)

\* The lookup found nothing and the title search was sent.
TitleSearchSentAfterNoMatch ==
    /\ Returned
    /\ \E i \in RefIndices :
          /\ QueuedWithTitle(i)
          /\ TitleSearchSent(i)
          /\ \A e \in events : e.step = "s2_ident" => e.ok


FoundIds(map) == {id \in InputIds : MapHas(map, id) /\ MapGet(map, id).found}

\* A step leaves every outcome that is found as it is.
FoundOutcomesKept ==
    \A id \in FoundIds(resultMap) :
        MapHas(resultMap', id) /\ MapGet(resultMap', id) = MapGet(resultMap, id)

\* C26: once the outcome of an input has found = true, no later step of the
\* resolution changes it.
C26_FoundOutcomeNeverChanged == [][FoundOutcomesKept]_vars

\* The resolution went on after an input was found: at its return an input
\* found by identifier and one found by title are in the results, after a
\* Semantic Scholar lookup by identifier and the title phase of OpenAlex ran.
C26_FoundBeforeLaterSteps ==
    /\ Returned
    /\ \E e \in events : e.step = "s2_ident" /\ e.ok
    /\ \E e \in events : e.step = "ttl_oa"
    /\ \E i \in RefIndices : \E k \in 1..Len(response.results) :
          /\ response.results[k].id = references[i].id
          /\ references[i].id \in FoundIds(resultMap)
          /\ response.results[k] = MapGet(resultMap, references[i].id)
          /\ ~response.results[k].searched_by_title
    /\ \E i \in RefIndices :
          /\ references[i].id \in FoundIds(resultMap)
          /\ MapGet(resultMap, references[i].id).searched_by_title

\* Input i has a title without a letter or a digit.
EmptyNormalizedTitle(i) ==
    /\ Truthy(references[i].title)
    /\ normalizeText(references[i].title) = << >>

\* C30: an input whose title normalizes to the empty string is never resolved
\* by title matching: no outcome returned for such an input is found with
\* searched_by_title = true.
C30_EmptyTitleNeverMatched ==
    Returned =>
        \A i \in RefIndices : \A k \in 1..Len(response.results) :
            (response.results[k].id = references[i].id /\ EmptyNormalizedTitle(i))
                => ~(response.results[k].found /\ response.results[k].searched_by_title)

\* An input with the title "?" and no identifier is returned as found, with
\* the data of the work of OpenAlex whose title is "--".
C30_ResolvedOnTwoEmptyTitles ==
    /\ Returned
    /\ \E i \in RefIndices : \E k \in 1..Len(response.results) :
          /\ response.results[k].id = references[i].id
          /\ EmptyNormalizedTitle(i)
          /\ FirstType(references[i]) = 0
          /\ response.results[k].found
          /\ response.results[k].searched_by_title
          /\ response.results[k].data.title # references[i].title
          /\ normalizeText(response.results[k].data.title) = << >>

(***************************************************************************)
(* The properties of the citation search, checked under SpecCitations.     *)
(***************************************************************************)
CitationsReturned == cpc = "done" /\ citationResponse # None

DirectionOf(lists, d) == IF d = "backward" THEN lists.backward ELSE lists.forward

Directions == {"backward", "forward"}

\* The search of a provider that has completed, and how.
Searched(provider, ok) ==
    \E i \in 1..Len(completed) : completed[i].provider = provider /\ completed[i].ok = ok

\* The records the completed search of a provider returned for a direction.
ReturnedBy(provider, d) ==
    LET i == CHOOSE i \in 1..Len(completed) : completed[i].provider = provider
    IN  {DirectionOf(completed[i].found, d)[k] :
            k \in 1..Len(DirectionOf(completed[i].found, d))}

ResultOf(d) ==
    {DirectionOf(citationResponse.data, d)[k] :
        k \in 1..Len(DirectionOf(citationResponse.data, d))}

\* The record is in the result, with an abstract added at most.
Kept(citation, d) ==
    \E r \in ResultOf(d) :
        /\ generateCitationKey(r) = generateCitationKey(citation)
        /\ [r EXCEPT !.abstract = Absent] = [citation EXCEPT !.abstract = Absent]
        /\ Truthy(citation.abstract) => r.abstract = citation.abstract

StructurallyComplete(data) ==
    /\ DOMAIN data = {"backward", "forward", "combined", "deduplication", "statistics"}
    /\ data.statistics.totalBackward = Len(data.backward)
    /\ data.statistics.totalForward = Len(data.forward)
    /\ data.statistics.totalCombined = Len(data.combined)

OtherProvider(provider) == IF provider = "openalex" THEN "semantic_scholar" ELSE "openalex"

\* C7: with provider = both, when the search of one provider has failed as
\* a whole, searchCitations returns a result with all its parts, and its
\* backward and forward lists hold every record the other provider returned.
C7_OtherProviderSurvives ==
    (cpc = "done" /\ searchInputs # << >> /\ options.provider = "both") =>
        /\ citationResponse.ok
        /\ StructurallyComplete(citationResponse.data)
        /\ \A provider \in {"openalex", "semantic_scholar"} :
              (Searched(provider, FALSE) /\ Searched(OtherProvider(provider), TRUE)) =>
                  \A d \in Directions :
                      \A citation \in ReturnedBy(OtherProvider(provider), d) :
                          Kept(citation, d)

\* The search of Semantic Scholar failed after OpenAlex had returned records
\* for both directions, and the call has returned.
C7_SemanticScholarFailedAfterOpenAlex ==
    /\ cpc = "done"
    /\ options.provider = "both"
    /\ Len(completed) = 3
    /\ completed[1].provider = "openalex"
    /\ completed[1].ok
    /\ completed[1].found.backward # << >>
    /\ completed[1].found.forward # << >>
    /\ completed[2].provider = "semantic_scholar"
    /\ ~completed[2].ok
    /\ Len(citationResponse.data.backward) = Len(completed[1].found.backward)

NoTwoWithOneKey(citations) ==
    \A i \in 1..Len(citations) : \A j \in 1..Len(citations) :
        generateCitationKey(citations[i]) = generateCitationKey(citations[j]) => i = j

\* C9: in every result of searchCitations, combined holds each identity key
\* of backward or forward once and no other key, so its length is the sum
\* of the two lengths less directionOverlap, the number of keys in both.
C9_CombinedIsUnion ==
    CitationsReturned =>
        /\ citationKeys(citationResponse.data.combined) =
               citationKeys(citationResponse.data.backward)
                   \cup citationKeys(citationResponse.data.forward)
        /\ NoTwoWithOneKey(citationResponse.data.combined)
        /\ citationResponse.data.deduplication.directionOverlap =
               Cardinality(citationKeys(citationResponse.data.backward)
                               \cap citationKeys(citationResponse.data.forward))
        /\ Len(citationResponse.data.combined) =
               Len(citationResponse.data.backward) + Len(citationResponse.data.forward)
                   - citationResponse.data.deduplication.directionOverlap

\* A result with a record in both directions and one in a single direction.
C9_OverlapOfDirections ==
    /\ CitationsReturned
    /\ citationResponse.data.deduplication.directionOverlap >= 1
    /\ Len(citationResponse.data.combined) > citationResponse.data.deduplication.directionOverlap
    /\ Len(citationResponse.data.backward) + Len(citationResponse.data.forward) >= 3

\* OpenAlex returned a record without abstract and Semantic Scholar a record
\* with the same key and an abstract, for direction d.
AbstractOnlyFromSemanticScholar(a, b) ==
    /\ generateCitationKey(a) = generateCitationKey(b)
    /\ ~Truthy(a.abstract)
    /\ Truthy(b.abstract)

\* C10: with provider = both, when for a direction OpenAlex returned a
\* record without abstract and Semantic Scholar a record with the same key
\* and an abstract, the record of that key in that direction of the result
\* has the abstract of Semantic Scholar, in either order of completion.
C10_SemanticScholarAbstractWins ==
    (cpc = "done" /\ options.provider = "both"
        /\ Searched("openalex", TRUE) /\ Searched("semantic_scholar", TRUE)) =>
        \A d \in Directions :
            \A a \in ReturnedBy("openalex", d) : \A b \in ReturnedBy("semantic_scholar", d) :
                AbstractOnlyFromSemanticScholar(a, b) =>
                    \E r \in ResultOf(d) :
                        /\ generateCitationKey(r) = generateCitationKey(a)
                        /\ r.abstract = b.abstract
                        /\ \A other \in ResultOf(d) :
                               generateCitationKey(other) = generateCitationKey(a) => other = r

\* The two searches returned such a pair of records for backward, and the
\* search of OpenAlex completed first, so that the record of Semantic
\* Scholar was merged into the one of OpenAlex.
C10_MergedIntoOpenAlexRecord ==
    /\ cpc = "done"
    /\ options.provider = "both"
    /\ Len(completed) = 3
    /\ completed[1].provider = "openalex" /\ completed[1].ok
    /\ completed[2].provider = "semantic_scholar" /\ completed[2].ok
    /\ \E a \in ReturnedBy("openalex", "backward") :
       \E b \in ReturnedBy("semantic_scholar", "backward") :
           AbstractOnlyFromSemanticScholar(a, b)

\* The same pair, the search of Semantic Scholar completing first.
SemanticScholarCompletedFirst ==
    /\ cpc = "done"
    /\ options.provider = "both"
    /\ Len(completed) = 3
    /\ completed[1].provider = "semantic_scholar" /\ completed[1].ok
    /\ completed[2].provider = "openalex" /\ completed[2].ok
    /\ \E a \in ReturnedBy("openalex", "forward") :
       \E b \in ReturnedBy("semantic_scholar", "forward") :
           AbstractOnlyFromSemanticScholar(a, b)


\* What the completed search of a provider returned.
FoundBy(provider) ==
    completed[CHOOSE i \in 1..Len(completed) : completed[i].provider = provider].found

\* The merge of what a provider returned into a context.
mergeOf(context, provider) ==
    IF provider = "openalex"
    THEN processOpenAlexCitations(context, FoundBy("openalex"))
    ELSE processSemanticScholarCitations(context, FoundBy("semantic_scholar"))

\* What searchCitations returns for the answers the providers gave when the
\* search of the provider named completes first.
ResultInOrder(first) ==
    extractCitationResults(
        enrichCitationsWithAbstracts(
            mergeOf(mergeOf(initializeCitationContext(searchInputs, options), first),
                    OtherProvider(first)),
            completed[3].ok))

Records(list) == {list[k] : k \in 1..Len(list)}

\* The same records in each list and the same provider overlaps.
SameResult(a, b) ==
    /\ Records(a.backward) = Records(b.backward)
    /\ Records(a.forward) = Records(b.forward)
    /\ Records(a.combined) = Records(b.combined)
    /\ a.deduplication.backwardProviderOverlap = b.deduplication.backwardProviderOverlap
    /\ a.deduplication.forwardProviderOverlap = b.deduplication.forwardProviderOverlap

BothCompleted ==
    /\ CitationsReturned
    /\ options.provider = "both"
    /\ Len(completed) = 3

\* C16: with provider = both the result of searchCitations is the same
\* whichever of the two searches completes first: it is the result of either
\* order for the answers the providers gave.
C16_ResultIndependentOfOrder ==
    BothCompleted =>
        \A first \in {"openalex", "semantic_scholar"} :
            SameResult(citationResponse.data, ResultInOrder(first))

\* Both searches and the abstract requests went well, Semantic Scholar
\* completed first, and the result is not the one of the other order.
C16_SemanticScholarFirstDiffers ==
    /\ BothCompleted
    /\ completed[1].provider = "semantic_scholar"
    /\ \A i \in 1..3 : completed[i].ok
    /\ ~SameResult(citationResponse.data, ResultInOrder("openalex"))

\* The result returned is the one of the order the searches completed in.
ResultIsOfItsOrder ==
    BothCompleted => citationResponse.data = ResultInOrder(completed[1].provider)


\* Both searches have completed well and their records are merged; the
\* abstracts are not yet asked for.
BothMerged ==
    /\ cpc = "enrich"
    /\ options.provider = "both"
    /\ completed[1].ok
    /\ completed[2].ok

ContextMap(d) ==
    IF d = "backward" THEN citationContext.backwardCitations
    ELSE citationContext.forwardCitations

ContextOverlap(d) ==
    IF d = "backward" THEN citationContext.statistics.backwardProviderOverlap
    ELSE citationContext.statistics.forwardProviderOverlap

\* The keys of a direction both providers returned.
KeysOfBoth(d) ==
    {generateCitationKey(r) : r \in ReturnedBy("openalex", d)}
        \cap {generateCitationKey(r) : r \in ReturnedBy("semantic_scholar", d)}

\* The existing record with the abstract of the new record, when it has one,
\* and every empty field filled from the new record.
MergedInto(existing, new) ==
    [f \in DOMAIN existing |->
        IF f = "abstract" THEN Or(new.abstract, existing.abstract)
        ELSE Or(existing[f], new[f])]

\* The second writer of each key of direction d was merged into the record of
\* the first and counted.
SecondWriterMerged(d) ==
    /\ \A e \in ReturnedBy(completed[1].provider, d) :
       \A n \in ReturnedBy(completed[2].provider, d) :
           generateCitationKey(n) = generateCitationKey(e)
               => KeyGet(ContextMap(d), generateCitationKey(e)) = MergedInto(e, n)
    /\ ContextOverlap(d) = Cardinality(KeysOfBoth(d))

\* C17: a record that arrives for a key the direction's map already has is
\* merged into the record there, its abstract and the fields the record
\* lacks taken from it, and the direction's provider overlap grows by one,
\* whichever provider writes second.
C17_SecondWriterMerged == BothMerged => \A d \in Directions : SecondWriterMerged(d)

\* OpenAlex wrote second for a key Semantic Scholar had written: the record
\* is Semantic Scholar's, without the OpenAlex id, and the overlap is 0.
C17_OpenAlexSecondWriterDropped ==
    /\ BothMerged
    /\ completed[2].provider = "openalex"
    /\ KeysOfBoth("backward") # {}
    /\ ContextOverlap("backward") = 0
    /\ \A k \in KeysOfBoth("backward") :
           ~Truthy(KeyGet(ContextMap("backward"), k).openalex_id)

\* The claim holds when Semantic Scholar writes second.
SemanticScholarSecondWriterMerged ==
    (BothMerged /\ completed[2].provider = "semantic_scholar")
        => \A d \in Directions : SecondWriterMerged(d)

\* Semantic Scholar wrote second for a key OpenAlex had written.
SemanticScholarWroteSecond ==
    /\ BothMerged
    /\ completed[2].provider = "semantic_scholar"
    /\ KeysOfBoth("forward") # {}
    /\ ContextOverlap("forward") = 1


\* The keys the completed search of a provider returned for a direction: none
\* when the provider was not asked or its search failed.
ReturnedKeys(provider, d) ==
    IF Searched(provider, TRUE)
    THEN {generateCitationKey(r) : r \in ReturnedBy(provider, d)}
    ELSE {}

ResultOverlap(d) ==
    IF d = "backward" THEN citationResponse.data.deduplication.backwardProviderOverlap
    ELSE citationResponse.data.deduplication.forwardProviderOverlap

\* C18: in every result the provider overlap of a direction is the number of
\* keys of that direction both providers returned: 0 when one provider alone
\* is selected, even when inputs share a cited or citing work.
C18_OverlapCountsKeysOfBoth ==
    CitationsReturned =>
        \A d \in Directions :
            ResultOverlap(d)
                = Cardinality(ReturnedKeys("openalex", d)
                                  \cap ReturnedKeys("semantic_scholar", d))

\* Semantic Scholar alone was asked about two papers that share a reference:
\* the backward provider overlap returned is 1.
C18_SharedReferenceCountedAsOverlap ==
    /\ CitationsReturned
    /\ options.provider = "semantic_scholar"
    /\ Len(searchInputs) = 2
    /\ Cardinality(ReturnedKeys("semantic_scholar", "backward")) = 1
    /\ ResultOverlap("backward") = 1

\* Both providers returned one backward key and the overlap returned is 0.
KeyOfBothNotCounted ==
    /\ CitationsReturned
    /\ ReturnedKeys("openalex", "backward") \cap ReturnedKeys("semantic_scholar", "backward")
           # {}
    /\ ResultOverlap("backward") = 0

\* The overlap is as stated when OpenAlex completes first and no provider
\* returns a key twice.
OverlapWhenOpenAlexFirst ==
    (CitationsReturned /\ Len(searchInputs) = 1 /\ completed[1].provider = "openalex")
        => \A d \in Directions :
               ResultOverlap(d)
                   = Cardinality(ReturnedKeys("openalex", d)
                                     \cap ReturnedKeys("semantic_scholar", d))


\* The searches left abstracts in the DOI-to-abstract side-map.
SideMapFilled ==
    /\ CitationsReturned
    /\ citationContext # None
    /\ citationContext.abstractsMap # << >>

InSideMap(citation) ==
    /\ Truthy(citation.doi)
    /\ KeyHas(citationContext.abstractsMap, normalizeDoi(citation.doi))

\* C19: when the searches leave abstracts in the side-map, every citation
\* returned whose normalized DOI is a key of the side-map has an abstract: its
\* own, or the side-map's when it came without one, whichever direction the
\* abstract was captured in.
C19_SideMapAbstractsApplied ==
    SideMapFilled =>
        \A d \in Directions : \A r \in ResultOf(d) :
            InSideMap(r) =>
                /\ Truthy(r.abstract)
                /\ \/ r.abstract = KeyGet(citationContext.abstractsMap, normalizeDoi(r.doi))
                   \/ \E own \in ReturnedBy("semantic_scholar", d) :
                          generateCitationKey(own) = generateCitationKey(r)
                          /\ own.abstract = r.abstract

\* Semantic Scholar's backward record left an abstract for a DOI in the
\* side-map, and OpenAlex's forward record with that DOI is returned without
\* an abstract.
C19_AbstractOfOtherDirectionNotApplied ==
    /\ SideMapFilled
    /\ \E r \in ResultOf("forward") :
          /\ InSideMap(r)
          /\ ~Truthy(r.abstract)
          /\ Truthy(r.openalex_id)
    /\ \E b \in ResultOf("backward") :
          /\ Truthy(b.abstract)
          /\ \E r \in ResultOf("forward") : b.doi = r.doi


ResultKeys(d) == {generateCitationKey(r) : r \in ResultOf(d)}

\* C28: with provider = both, the keys of the backward list and of the
\* forward list of the result are the keys OpenAlex returned for that
\* direction together with those Semantic Scholar returned, whichever of the
\* two searches completed first.
C28_KeysAreUnionOfProviders ==
    (CitationsReturned /\ options.provider = "both") =>
        \A d \in Directions :
            ResultKeys(d) = ReturnedKeys("openalex", d) \cup ReturnedKeys("semantic_scholar", d)

\* Semantic Scholar completed first, and each provider returned a reference
\* the other did not, and one the other did.
C28_SemanticScholarFirstWithSharedKey ==
    /\ CitationsReturned
    /\ options.provider = "both"
    /\ Len(completed) = 3
    /\ completed[1].provider = "semantic_scholar"
    /\ completed[1].ok /\ completed[2].ok
    /\ ReturnedKeys("openalex", "backward") \ ReturnedKeys("semantic_scholar", "backward") # {}
    /\ ReturnedKeys("semantic_scholar", "backward") \ ReturnedKeys("openalex", "backward") # {}
    /\ ReturnedKeys("openalex", "backward") \cap ReturnedKeys("semantic_scholar", "backward") # {}

\* The same responses, OpenAlex completing first.
OpenAlexFirstWithSharedKey ==
    /\ CitationsReturned
    /\ options.provider = "both"
    /\ Len(completed) = 3
    /\ completed[1].provider = "openalex"
    /\ completed[1].ok /\ completed[2].ok
    /\ ReturnedKeys("openalex", "backward") \ ReturnedKeys("semantic_scholar", "backward") # {}
    /\ ReturnedKeys("semantic_scholar", "backward") \ ReturnedKeys("openalex", "backward") # {}
    /\ ReturnedKeys("openalex", "backward") \cap ReturnedKeys("semantic_scholar", "backward") # {}

KeysOf(map) == [k \in 1..Len(map) |-> map[k].key]

\* Every entry of the map is stored under the key of its record, and no two
\* under one key.
UnderOwnKeys(map) ==
    /\ \A k \in 1..Len(map) : map[k].key = generateCitationKey(map[k].value)
    /\ \A k, l \in 1..Len(map) : map[k].key = map[l].key => k = l

\* A step that merges the records of a search leaves the entries of the map
\* under their keys and adds entries at most.
MergeKeepsKeys(before, after) ==
    /\ Len(after) >= Len(before)
    /\ SubSeq(KeysOf(after), 1, Len(before)) = KeysOf(before)

\* The step of the abstract enrichment, which clears the maps and sets every
\* record again, leaves the keys and the number of entries as they were.
ContextKeysKept ==
    (citationContext # None /\ citationContext' # None) =>
        /\ MergeKeepsKeys(citationContext.backwardCitations,
                          citationContext'.backwardCitations)
        /\ MergeKeepsKeys(citationContext.forwardCitations,
                          citationContext'.forwardCitations)
        /\ cpc = "enrich" =>
              /\ KeysOf(citationContext'.backwardCitations)
                    = KeysOf(citationContext.backwardCitations)
              /\ KeysOf(citationContext'.forwardCitations)
                    = KeysOf(citationContext.forwardCitations)

\* C29: at every point every entry of the backward and of the forward map is
\* stored under the identity key of its current record; neither the merge of
\* Semantic Scholar's data into a record nor the abstract enrichment changes
\* the key of a record or the number of entries.
C29_EntriesUnderOwnKeys ==
    /\ [](citationContext # None =>
              /\ UnderOwnKeys(citationContext.backwardCitations)
              /\ UnderOwnKeys(citationContext.forwardCitations))
    /\ [][ContextKeysKept]_vars

\* Semantic Scholar's data was merged into a record of OpenAlex, and the
\* abstract enrichment then set the records again, one with the abstract it
\* fetched.
C29_MergedThenEnriched ==
    /\ CitationsReturned
    /\ Len(completed) = 3
    /\ completed[2].provider = "semantic_scholar"
    /\ completed[1].ok /\ completed[2].ok /\ completed[3].ok
    /\ completed[2].found.abstractsMap = << >>
    /\ citationResponse.data.deduplication.backwardProviderOverlap > 0
    /\ \E r \in ResultOf("backward") : Truthy(r.abstract)

ResultStatistics == citationResponse.data.statistics

\* C27: in every result of searchCitations the backward counts of the two
\* sources add up to totalBackward and the forward counts to totalForward,
\* whatever the provider option, the order in which the searches complete and
\* the searches that fail.
C27_SourcesAddUpToTotals ==
    CitationsReturned =>
        /\ ResultStatistics.sources.openalex.backward
               + ResultStatistics.sources.semanticScholar.backward
             = ResultStatistics.totalBackward
        /\ ResultStatistics.sources.openalex.forward
               + ResultStatistics.sources.semanticScholar.forward
             = ResultStatistics.totalForward
        /\ ResultStatistics.totalBackward = Len(citationResponse.data.backward)
        /\ ResultStatistics.totalForward = Len(citationResponse.data.forward)

\* Both providers added references of their own and shared one, Semantic
\* Scholar completing second.
C27_BothSourcesCountedWithOverlap ==
    /\ CitationsReturned
    /\ Len(completed) = 3
    /\ completed[2].provider = "semantic_scholar"
    /\ ResultStatistics.sources.openalex.backward > 0
    /\ ResultStatistics.sources.semanticScholar.backward > 0
    /\ citationResponse.data.deduplication.backwardProviderOverlap > 0

\* The Semantic Scholar search of the request had several batches and the
\* request of batch b failed.
BatchFailed(b) ==
    /\ CitationsReturned
    /\ Len(SemanticScholarCitationBatches(searchInputs)) > 1
    /\ \E i \in 1..Len(completed) :
          /\ completed[i].provider = "semantic_scholar"
          /\ completed[i].failedBatch = b

ElementsOf(list) == {list[k] : k \in 1..Len(list)}

SemanticScholarCitedOf(d) ==
    IF d = "backward" THEN WantedOf(options.direction, d, semanticScholarCited.references)
    ELSE WantedOf(options.direction, d, semanticScholarCited.citations)

\* The keys of the records Semantic Scholar has for direction d in batch b.
KeysOfBatch(d, b) ==
    {generateCitationKey(semanticScholarCitation(r)) :
        r \in {p \in ElementsOf(CitedOfBatch(SemanticScholarCitedOf(d), b,
                                         Len(SemanticScholarCitationBatches(searchInputs)))) :
                  HasTitle(p)}}

\* C25: when the citation fetch of Semantic Scholar is split into several
\* batches and the request of one batch fails, the citations of its other
\* batches are in the result all the same.
C25_FailedBatchConfined ==
    \A b \in 1..Len(SemanticScholarCitationBatches(searchInputs)) :
        BatchFailed(b) =>
            \A d \in Directions :
                \A o \in 1..Len(SemanticScholarCitationBatches(searchInputs)) \ {b} :
                    KeysOfBatch(d, o) \subseteq {generateCitationKey(r) : r \in ResultOf(d)}

\* The request of the second batch failed, the first batch had a reference,
\* and the result has no reference at all.
C25_FailedBatchLosesOtherBatches ==
    /\ BatchFailed(2)
    /\ KeysOfBatch("backward", 1) # {}
    /\ ResultOf("backward") = {}

(***************************************************************************)
(* The properties of the normalizers and of the key function.              *)
(***************************************************************************)
Normalized(name) == fnName = name /\ fnStage = 2

\* C11: every normalizer is idempotent: applied to its own result it returns
\* that result unchanged.
C11_NormalizersIdempotent ==
    (fnName \in Normalizers /\ fnStage = 2) => fnAgain = fnOutput

\* "doi:doi:10.1/X" was normalized twice: to "doi:10.1/x", then to "10.1/x".
C11_DoubledPrefixNormalized ==
    /\ Normalized("normalizeDoi")
    /\ fnInput = DoiKey \o DoiKey \o DoiPrefix \o <<"X">>
    /\ fnOutput = DoiKey \o DoiPrefix \o <<"x">>
    /\ fnAgain = DoiPrefix \o <<"x">>

\* "https://openalex.org/https://openalex.org/W1" was normalized twice: to
\* "https://openalex.org/w1", then to "w1".
DoubledOpenAlexPrefixNormalized ==
    /\ Normalized("normalizeOpenAlexId")
    /\ fnInput = OpenAlexHost \o OpenAlexHost \o <<"W", "1">>
    /\ fnOutput = OpenAlexHost \o <<"w", "1">>
    /\ fnAgain = <<"w", "1">>

\* The normalizers other than normalizeDoi and normalizeOpenAlexId are
\* idempotent.
OtherNormalizersIdempotent ==
    (fnStage = 2 /\ fnName \in Normalizers \ {"normalizeDoi", "normalizeOpenAlexId"})
        => fnAgain = fnOutput



KeyFields == <<"doi", "openalex_id", "s2_id", "pmid", "title">>

KeyKinds == <<DoiKey, OpenAlexKey, S2Key, PmidKey, TitleKey>>

\* The place in KeyFields of the first field the record has; the title, the
\* last one, when it has none of the others.
FirstPresent(citation) ==
    CHOOSE i \in 1..Len(KeyFields) :
        /\ i = Len(KeyFields) \/ Truthy(citation[KeyFields[i]])
        /\ \A j \in 1..(i - 1) : ~Truthy(citation[KeyFields[j]])

KeyGenerated == fnName = "generateCitationKey" /\ fnStage = 1

SameNormalizedDoi(a, b) ==
    /\ Truthy(a.doi)
    /\ Truthy(b.doi)
    /\ normalizeDoi(a.doi) = normalizeDoi(b.doi)

\* C20: the key of a citation starts with the kind of the first field it has
\* in the order DOI, OpenAlex id, S2 id, PMID, title, and two records with the
\* same normalized DOI have the same key whatever their other fields.
C20_KeyFromFirstPresentField ==
    KeyGenerated =>
        /\ HasPrefix(fnOutput, KeyKinds[FirstPresent(fnInput)])
        /\ Truthy(fnInput.doi) => fnOutput = DoiKey \o normalizeDoi(fnInput.doi)
        /\ \A other \in KeyInputs :
               SameNormalizedDoi(fnInput, other) => generateCitationKey(other) = fnOutput

\* The key of a record with a DOI in capitals and every other identifier.
C20_DoiWinsOverOtherIds ==
    /\ KeyGenerated
    /\ fnInput.doi = DoiPrefix \o <<"A">>
    /\ Truthy(fnInput.openalex_id)
    /\ Truthy(fnInput.s2_id)
    /\ Truthy(fnInput.pmid)
    /\ fnOutput = DoiKey \o DoiPrefix \o <<"a">>

\* The key of a record that has none of the identifiers.
TitleKeyGenerated ==
    /\ KeyGenerated
    /\ FirstPresent(fnInput) = 5
    /\ fnOutput = TitleKey \o <<"c", "d">>


TitleMatched == fnName = "findBestTitleMatch" /\ fnStage = 1

\* The candidates of the input whose title, lowercased and without the
\* characters that are no letter or digit, is the target's.
EqualOnceNormalized ==
    {i \in 1..Len(fnInput.candidates) :
        normalizeText(fnInput.candidates[i].title) = normalizeText(fnInput.targetTitle)}

\* C24: title matching returns the first candidate of the list whose
\* normalized title equals the input's normalized title, and none when no
\* candidate's does; a candidate that differs once normalized is not returned.
C24_FirstEqualNormalizedTitle ==
    TitleMatched =>
        IF EqualOnceNormalized = {}
        THEN fnOutput = 0
        ELSE /\ fnOutput \in EqualOnceNormalized
             /\ \A i \in EqualOnceNormalized : fnOutput <= i

\* The match was the second of three candidates: the first differs once
\* normalized, the third is equal too, and the match's raw title is not the
\* target's.
C24_FirstOfTwoEqualAfterDifferent ==
    /\ TitleMatched
    /\ fnOutput = 2
    /\ EqualOnceNormalized = {2, 3}
    /\ fnInput.candidates[2].title # fnInput.targetTitle
    /\ normalizeText(fnInput.targetTitle) # << >>

(***************************************************************************)
(* The properties of the provider clients.                                 *)
(***************************************************************************)
\* C12: a request of either client that the provider does not answer is
\* abandoned: no request stays sent and unanswered for ever, so that every
\* request settles and no caller waits for ever.
C12_UnansweredRequestAbandoned ==
    \A c \in Clients : (inflight[c] > 0) ~> (inflight[c] = 0)

\* Every request that has started settles, the reading of its answer
\* included.
EveryRequestSettles ==
    \A c \in Clients : (Running(c) > 0) ~> (Running(c) = 0)

\* A request to Semantic Scholar is in flight and the next one waits for it.
C12_SemanticScholarRequestInFlight ==
    /\ inflight.semantic_scholar = 1
    /\ queued.semantic_scholar = 1

\* A request to OpenAlex that is not answered is abandoned by its timer.
OpenAlexFetchSettles == (inflight.openalex > 0) ~> (inflight.openalex = 0)

\* A request to Semantic Scholar that is not answered is abandoned.
SemanticScholarFetchSettles ==
    (inflight.semantic_scholar > 0) ~> (inflight.semantic_scholar = 0)

\* A request that was abandoned by its timer surfaces as a TIMEOUT failure.
TimeoutSurfaces ==
    (settled # None /\ settled.outcome = "timeout") => settled.error.code = "TIMEOUT"

\* A request to OpenAlex timed out.
OpenAlexTimedOut ==
    /\ settled # None
    /\ settled.client = "openalex"
    /\ settled.outcome = "timeout"


\* C13: at every moment at most one request to Semantic Scholar and at most
\* nine requests to OpenAlex have started and not settled, whoever scheduled
\* them; the others wait in the limiter's queue.
C13_AtMostMaxConcurrentInFlight ==
    /\ Running("semantic_scholar") <= 1
    /\ Running("openalex") <= 9
    /\ \A c \in Clients : scheduled[c] >= queued[c] + Running(c)

\* Nine requests to OpenAlex and one to Semantic Scholar are running, and one
\* more of each waits in its queue.
C13_RequestsWaitForSlot ==
    /\ Running("openalex") = 9
    /\ queued.openalex = 1
    /\ Running("semantic_scholar") = 1
    /\ queued.semantic_scholar = 1

Settled(c, outcome) ==
    /\ settled # None
    /\ settled.client = c
    /\ settled.outcome = outcome

StatusMapped(c) ==
    /\ Settled(c, "429") => settled.error.code = "TOO_MANY_REQUESTS"
    /\ Settled(c, "404") => settled.error.code = "NOT_FOUND"
    /\ Settled(c, "500") => settled.error.code = "INTERNAL_SERVER_ERROR"

\* C14: each client maps an HTTP error status to the failure taxonomy: 429
\* to TOO_MANY_REQUESTS, 404 to NOT_FOUND, 500 and above to
\* INTERNAL_SERVER_ERROR.
C14_StatusMappedByBothClients == \A c \in Clients : StatusMapped(c)

\* Semantic Scholar answered 429 and the client threw INTERNAL_SERVER_ERROR.
C14_SemanticScholar429AsInternalError ==
    /\ Settled("semantic_scholar", "429")
    /\ settled.error.code = "INTERNAL_SERVER_ERROR"

\* The OpenAlex client maps the three statuses as stated.
OpenAlexStatusMapped == StatusMapped("openalex")

\* OpenAlex answered 404 and the client threw NOT_FOUND.
OpenAlex404AsNotFound ==
    /\ Settled("openalex", "404")
    /\ settled.error.code = "NOT_FOUND"


(***************************************************************************)
(* The properties of the forward page loop, checked under SpecForwardFair. *)
(***************************************************************************)
ForwardReturned == \A i \in ForwardInputs : forwardPc[i] = "returned"

\* A step requests a further page of an input only when the page that
\* arrived in it was a full one.
NextPageOnlyAfterFullPage ==
    \A i \in ForwardInputs :
        requested'[i] > requested[i] => resultsLength'[i] = ForwardPerPage

=============================================================================
